---- MODULE Spec2Model ----
(***************************************************************************)
(* A model of rewrite-lcmgen: the Python port of the LCM type compiler's   *)
(* front end (lcm_tokenize.py, lcmgen2.py, main.py).                       *)
(*                                                                         *)
(* Python strings are modelled as sequences of one-character strings, so   *)
(* that len(), indexing, rfind(), isdigit(), int() and ord() are computed  *)
(* rather than looked up.  A signed 64-bit value is a sequence of 8 bytes, *)
(* least significant first, in two's complement.                           *)
(***************************************************************************)
EXTENDS Integers, Sequences, FiniteSets, TLC

VARIABLES
    hv,        \* hash_update chain: the running value v (int64)
    hprev,     \* hash_update chain: v before the last hash_update
    hc,        \* hash_update chain: the value mixed in by the last hash_update
    hn,        \* hash_update chain: number of hash_update calls so far
    hsA,       \* fingerprint: a parsed struct
    hsB,       \* fingerprint: a second parsed struct
    hdone      \* fingerprint: TRUE once parse_struct stored both hashes

hashvars == <<hv, hprev, hc, hn>>
fpvars == <<hsA, hsB, hdone>>

-----------------------------------------------------------------------------
(* Characters and strings                                                  *)

\* ord(c) for the characters that occur in the model's names.  The last four
\* are non-ASCII letters (Latin-1, Linear B, Arabic presentation form,
\* Cyrillic supplement) written by their code point.
Ord ==
    "a" :> 97 @@ "b" :> 98 @@ "c" :> 99 @@ "d" :> 100 @@ "e" :> 101 @@
    "f" :> 102 @@ "g" :> 103 @@ "h" :> 104 @@ "i" :> 105 @@ "j" :> 106 @@
    "k" :> 107 @@ "l" :> 108 @@ "m" :> 109 @@ "n" :> 110 @@ "o" :> 111 @@
    "p" :> 112 @@ "q" :> 113 @@ "r" :> 114 @@ "s" :> 115 @@ "t" :> 116 @@
    "u" :> 117 @@ "v" :> 118 @@ "w" :> 119 @@ "x" :> 120 @@ "y" :> 121 @@
    "z" :> 122 @@ "S" :> 83 @@ "T" :> 84 @@
    "0" :> 48 @@ "1" :> 49 @@ "2" :> 50 @@ "3" :> 51 @@
    "4" :> 52 @@ "5" :> 53 @@ "6" :> 54 @@ "7" :> 55 @@ "8" :> 56 @@
    "9" :> 57 @@ "_" :> 95 @@ "." :> 46 @@ "-" :> 45 @@
    "U+00C8" :> 200 @@ "U+10001" :> 65537 @@ "U+FEFC" :> 65276 @@
    "U+0501" :> 1281

Letters ==
    {"a", "b", "c", "d", "e", "f", "g", "h", "i", "j", "k", "l", "m", "n",
     "o", "p", "q", "r", "s", "t", "u", "v", "w", "x", "y", "z", "S", "T",
     "U+00C8", "U+10001", "U+FEFC", "U+0501"}

Digits == {"0", "1", "2", "3", "4", "5", "6", "7", "8", "9"}

\* The keywords of lcmgen2.py.
KW_STRUCT == <<"s", "t", "r", "u", "c", "t">>
KW_PACKAGE == <<"p", "a", "c", "k", "a", "g", "e">>
KW_CONST == <<"c", "o", "n", "s", "t">>
KW_ENUM == <<"e", "n", "u", "m">>

T_int8 == <<"i", "n", "t", "8", "_", "t">>
T_int16 == <<"i", "n", "t", "1", "6", "_", "t">>
T_int32 == <<"i", "n", "t", "3", "2", "_", "t">>
T_int64 == <<"i", "n", "t", "6", "4", "_", "t">>
T_byte == <<"b", "y", "t", "e">>
T_float == <<"f", "l", "o", "a", "t">>
T_double == <<"d", "o", "u", "b", "l", "e">>
T_string == <<"s", "t", "r", "i", "n", "g">>
T_boolean == <<"b", "o", "o", "l", "e", "a", "n">>

PRIMITIVE_TYPES ==
    {T_int8, T_int16, T_int32, T_int64, T_byte, T_float, T_double,
     T_string, T_boolean}

ARRAY_DIMENSION_TYPES == {T_int8, T_int16, T_int32, T_int64}

CONST_TYPES == {T_int8, T_int16, T_int32, T_int64, T_float, T_double}

\* None, for the Optional[str] slots: a value no string equals (the elements
\* of a string are single characters).
None == <<"None">>

-----------------------------------------------------------------------------
(* String helpers of the parser                                            *)

\* s[0].isalpha() or s[0] == "_"
is_legal_member_name(s) == Len(s) > 0 /\ (s[1] \in Letters \/ s[1] = "_")

\* str.isdigit()
isdigit(s) == Len(s) > 0 /\ \A i \in 1..Len(s) : s[i] \in Digits

\* str.rfind("."): the 1-based position of the last ".", 0 when there is none
rfind_dot(s) ==
    LET at == { i \in 1..Len(s) : s[i] = "." }
    IN  IF at = {} THEN 0 ELSE CHOOSE i \in at : \A j \in at : j <= i

DigitValue ==
    "0" :> 0 @@ "1" :> 1 @@ "2" :> 2 @@ "3" :> 3 @@ "4" :> 4 @@
    "5" :> 5 @@ "6" :> 6 @@ "7" :> 7 @@ "8" :> 8 @@ "9" :> 9

RECURSIVE StripZeros(_)
StripZeros(ds) ==
    IF ds # <<>> /\ ds[1] = 0 THEN StripZeros(Tail(ds)) ELSE ds

\* A Python int: a sign and the decimal digits of the magnitude, most
\* significant first, without leading zeros (zero has no digits).
PyInt(neg, digits) ==
    LET mag == StripZeros(digits)
    IN  [neg |-> neg /\ mag # <<>>, mag |-> mag]

ValueError == [neg |-> FALSE, mag |-> <<10>>]

\* int(valstr, base=0) for decimal literals: an optional sign, then digits,
\* with no leading zero unless the value is zero.  (Prefixed literals such as
\* 0x10 and digit separators are not among the literals drawn here.)
int_base0(valstr) ==
    LET signed == Len(valstr) > 0 /\ valstr[1] \in {"+", "-"}
        body == IF signed THEN Tail(valstr) ELSE valstr
        digits == [i \in 1..Len(body) |-> DigitValue[body[i]]]
    IN  IF ~isdigit(body) THEN ValueError
        ELSE IF Len(body) > 1 /\ body[1] = "0" /\ StripZeros(digits) # <<>>
        THEN ValueError
        ELSE PyInt(signed /\ valstr[1] = "-", digits)

RECURSIVE MagLess(_, _)
\* a < b on magnitudes
MagLess(a, b) ==
    IF Len(a) # Len(b) THEN Len(a) < Len(b)
    ELSE IF a = <<>> THEN FALSE
    ELSE IF a[1] # b[1] THEN a[1] < b[1]
    ELSE MagLess(Tail(a), Tail(b))

\* a <= b on Python ints
IntLeq(a, b) ==
    IF a.neg /\ ~b.neg THEN TRUE
    ELSE IF ~a.neg /\ b.neg THEN FALSE
    ELSE IF a.neg THEN ~MagLess(a.mag, b.mag)
    ELSE ~MagLess(b.mag, a.mag)

INT_TYPES ==
    T_int8 :> <<PyInt(TRUE, <<1, 2, 8>>), PyInt(FALSE, <<1, 2, 7>>)>> @@
    T_int16 :> <<PyInt(TRUE, <<3, 2, 7, 6, 8>>),
                 PyInt(FALSE, <<3, 2, 7, 6, 7>>)>> @@
    T_int32 :> <<PyInt(TRUE, <<2, 1, 4, 7, 4, 8, 3, 6, 4, 8>>),
                 PyInt(FALSE, <<2, 1, 4, 7, 4, 8, 3, 6, 4, 7>>)>> @@
    T_int64 :>
        <<PyInt(TRUE, <<9, 2, 2, 3, 3, 7, 2, 0, 3, 6, 8, 5, 4, 7, 7, 5,
                        8, 0, 8>>),
          PyInt(FALSE, <<9, 2, 2, 3, 3, 7, 2, 0, 3, 6, 8, 5, 4, 7, 7, 5,
                         8, 0, 7>>)>>

\* A plausible slip: the unsigned range of the type's width is not excluded
\* (only the lower bound is tested).
int_in_type_bounds_lower(val, type) == IntLeq(INT_TYPES[type][1], val)

int_in_type_bounds(val, type) ==
    LET bounds == INT_TYPES[type]
    IN  IntLeq(bounds[1], val) /\ IntLeq(val, bounds[2])

\* float(valstr) succeeds: [sign] digits [. digits] [e [sign] digits], with
\* digits before or after the point, or inf / nan.
float_parses(valstr) ==
    LET signed == Len(valstr) > 0 /\ valstr[1] \in {"+", "-"}
        body == IF signed THEN Tail(valstr) ELSE valstr
        es == { i \in 1..Len(body) : body[i] \in {"e", "E"} }
        epos == IF es = {} THEN Len(body) + 1
                ELSE CHOOSE i \in es : \A j \in es : i <= j
        mant == SubSeq(body, 1, epos - 1)
        expo == SubSeq(body, epos + 1, Len(body))
        esigned == Len(expo) > 0 /\ expo[1] \in {"+", "-"}
        dots == { i \in 1..Len(mant) : mant[i] = "." }
        mantdigits == [i \in 1..Len(mant) |-> mant[i]]
    IN  \/ body \in {<<"i", "n", "f">>, <<"n", "a", "n">>}
        \/ /\ Cardinality(dots) <= 1
           /\ \A i \in 1..Len(mant) : mant[i] \in Digits \cup {"."}
           /\ \E i \in 1..Len(mant) : mant[i] \in Digits
           /\ es # {} => isdigit(IF esigned THEN Tail(expo) ELSE expo)

\* create_typename(lcmgen, raw_typename)
create_typename(package_now, package_prefix, raw_typename) ==
    LET last_dot_loc == rfind_dot(raw_typename)
        shortname == IF last_dot_loc = 0 THEN raw_typename
                     ELSE SubSeq(raw_typename, last_dot_loc + 1,
                                 Len(raw_typename))
        package1 == IF last_dot_loc = 0
                    THEN IF shortname \in PRIMITIVE_TYPES THEN <<>>
                         ELSE package_now
                    ELSE SubSeq(raw_typename, 1, last_dot_loc - 1)
        typename1 == IF last_dot_loc = 0 /\ shortname \notin PRIMITIVE_TYPES
                        /\ package1 # <<>>
                     THEN package1 \o <<".">> \o shortname
                     ELSE raw_typename
        prefixed == package_prefix # <<>> /\ shortname \notin PRIMITIVE_TYPES
        package2 == IF prefixed
                    THEN package_prefix \o
                         (IF package1 # <<>> THEN <<".">> \o package1
                          ELSE <<>>)
                    ELSE package1
        typename2 == IF prefixed THEN package2 \o <<".">> \o shortname
                     ELSE typename1
    IN  [lctypename |-> typename2, package |-> package2,
         shortname |-> shortname]

is_array_dimension_type(typename) ==
    typename.lctypename \in ARRAY_DIMENSION_TYPES

-----------------------------------------------------------------------------
(* 64-bit arithmetic of hash_update                                        *)

\* A Python int holding (v << 8) + c for an int64 v fits 10 bytes.
WideIndex == 1..10

RECURSIVE Pow2(_)
Pow2(n) == IF n = 0 THEN 1 ELSE 2 * Pow2(n - 1)

RECURSIVE Xor8(_, _, _)
\* a ^ b on two values below 2^n
Xor8(a, b, n) ==
    IF n = 0 THEN 0
    ELSE IF a = 0 THEN b
    ELSE IF b = 0 THEN a
    ELSE ((a + b) % 2) + 2 * Xor8(a \div 2, b \div 2, n - 1)

\* A function on 1..8 or 1..10 as an explicit tuple of bytes.
Bytes8(f) == <<f[1], f[2], f[3], f[4], f[5], f[6], f[7], f[8]>>
Bytes10(f) ==
    <<f[1], f[2], f[3], f[4], f[5], f[6], f[7], f[8], f[9], f[10]>>

\* The int64 (8 bytes, least significant first) of a natural number below 2^31.
Int64OfNat(n) ==
    Bytes8([k \in 1..8 |->
               IF k <= 4 THEN (n \div Pow2(8 * (k - 1))) % 256 ELSE 0])

\* A Python int in the int64 range as a wider two's-complement value.
ToWide(v) ==
    Bytes10([k \in WideIndex |->
                IF k <= 8 THEN v[k] ELSE IF v[8] >= 128 THEN 255 ELSE 0])

\* Byte k of a wide value, sign-extended above its width.
WideByte(w, k) ==
    IF k \in WideIndex THEN w[k] ELSE IF w[10] >= 128 THEN 255 ELSE 0

\* v << 8 on a Python int: nothing is lost.
ShiftLeft8(w) ==
    Bytes10([k \in WideIndex |-> IF k = 1 THEN 0 ELSE w[k - 1]])

\* v >> 55 on a Python int: floor division by 2^55, the sign kept.
ShiftRight55(w) ==
    Bytes10([k \in WideIndex |->
                (WideByte(w, 7 + k) % 128) * 2 + (WideByte(w, 6 + k) \div 128)])

XorWide(a, b) == Bytes10([k \in WideIndex |-> Xor8(a[k], b[k], 8)])

RECURSIVE CarryInto(_, _, _)
\* the carry into byte k of w + c
CarryInto(w, c, k) ==
    IF k = 1 THEN c ELSE (w[k - 1] + CarryInto(w, c, k - 1)) \div 256

AddWide(w, c) ==
    Bytes10([k \in WideIndex |-> (w[k] + CarryInto(w, c, k)) % 256])

\* c_int64(v).value: the low 64 bits, read as a signed value.
c_int64(w) == Bytes8(w)

IsNegative(v) == v[8] >= 128

\* A plausible slip: a rotation by 8 (v >> 56) instead of the shift by 55.
hash_update_rot(v, char_ord) ==
    LET w == ToWide(v)
        r == Bytes10([k \in WideIndex |-> WideByte(w, 7 + k)])
    IN  c_int64(AddWide(XorWide(ShiftLeft8(w), r), char_ord))

\* A plausible slip: the value is added without shifting the running hash.
hash_update_sum(v, char_ord) == c_int64(AddWide(ToWide(v), char_ord))

hash_update(v, char_ord) ==
    LET w == ToWide(v)
    IN  c_int64(AddWide(XorWide(ShiftLeft8(w), ShiftRight55(w)), char_ord))

\* Evaluates x before e (TLC would otherwise pass x on unevaluated).
Strict(x, e) == IF x = x THEN e ELSE e

RECURSIVE hash_chars(_, _, _)
hash_chars(v, s, i) ==
    Strict(v, IF i > Len(s) THEN v
              ELSE hash_chars(hash_update(v, Ord[s[i]]), s, i + 1))

hash_string_update(v, s) ==
    Strict(v, hash_chars(hash_update(v, Len(s)), s, 1))

\* DimensionMode.value
ModeValue(mode) == IF mode = "CONST" THEN 0 ELSE 1

HASH_SEED == 305419896

RECURSIVE hash_dimensions(_, _, _)
hash_dimensions(v, dims, i) ==
    Strict(v, IF i > Len(dims) THEN v
              ELSE hash_dimensions(
                       hash_string_update(
                           hash_update(v, ModeValue(dims[i].mode)),
                           dims[i].size),
                       dims, i + 1))

\* hash_member after the member's name: the type name if it is primitive
hash_member_type(v, member) ==
    IF member.type.lctypename \in PRIMITIVE_TYPES
    THEN hash_string_update(v, member.type.lctypename)
    ELSE v

\* A plausible slip: the type name is hashed for compound members too.
hash_member_alltypes(v, member) ==
    hash_dimensions(
        hash_update(
            hash_string_update(hash_string_update(v, member.membername),
                               member.type.lctypename),
            Len(member.dimensions)),
        member.dimensions, 1)

hash_member(v, member) ==
    hash_dimensions(
        hash_update(
            hash_member_type(hash_string_update(v, member.membername),
                             member),
            Len(member.dimensions)),
        member.dimensions, 1)

RECURSIVE hash_members(_, _, _)
hash_members(v, members, i) ==
    Strict(v, IF i > Len(members) THEN v
              ELSE hash_members(hash_member(v, members[i]), members, i + 1))

hash_structure(structure) ==
    hash_members(Int64OfNat(HASH_SEED), structure.members, 1)

-----------------------------------------------------------------------------
(* The hash_update chain: hash_string_update and hash_structure fold       *)
(* hash_update over the values they mix in, starting from the seed.        *)

MaxHashSteps == 9

\* Values mixed in: an ASCII character, a Latin-1 letter.
HashChars == {97, 200}

InitHashUpdate ==
    /\ hv = Int64OfNat(HASH_SEED)
    /\ hprev = Int64OfNat(HASH_SEED)
    /\ hc = 0
    /\ hn = 0

hash_update_step ==
    /\ hn < MaxHashSteps
    /\ \E c \in HashChars :
        /\ hv' = hash_update(hv, c)
        /\ hprev' = hv
        /\ hc' = c
    /\ hn' = hn + 1

-----------------------------------------------------------------------------
(* Fingerprints of parsed structs: parse_struct stores                     *)
(* hash_structure(structure) once the closing brace is read.               *)

MaxHashMembers == 2

N_n == <<"n">>
N_y == <<"y">>
N_k == <<"k">>
N_S == <<"S">>
N_T == <<"T">>
N_foo == <<"f", "o", "o">>
N_bar == <<"b", "a", "r">>
N_p == <<"p">>
N_p_bar == <<"p", ".", "b", "a", "r">>
N_p_T == <<"p", ".", "T">>
\* two names of non-ASCII letters
N_u1 == <<"U+10001">>
N_u2 == <<"U+FEFC", "U+0501">>

TypeName(lctypename, package, shortname) ==
    [lctypename |-> lctypename, package |-> package, shortname |-> shortname]

NewMember(type, membername, dimensions, comment) ==
    [type |-> type, membername |-> membername, dimensions |-> dimensions,
     comment |-> comment]

\* Members as parse_member builds them.
HashMemberPool ==
    { NewMember(TypeName(T_int32, <<>>, T_int32), N_n, <<>>, None),
      NewMember(TypeName(N_foo, <<>>, N_foo), N_y, <<>>, None),
      NewMember(TypeName(N_p_bar, N_p, N_bar), N_y, <<>>, None),
      NewMember(TypeName(N_foo, <<>>, N_foo), N_u1, <<>>, None),
      NewMember(TypeName(N_foo, <<>>, N_foo), N_u2, <<>>, None) }

DistinctNames(members) ==
    \A i, j \in 1..Len(members) :
        i # j => members[i].membername # members[j].membername

HashMemberLists ==
    { ms \in UNION { [1..n -> HashMemberPool] : n \in 1..MaxHashMembers } :
        DistinctNames(ms) }

NewStruct(structname, members, constants, comment) ==
    [structname |-> structname, members |-> members, structs |-> <<>>,
     constants |-> constants, hash |-> Int64OfNat(0), comment |-> comment,
     file_comment |-> None]

InitFingerprint ==
    /\ hsA \in { NewStruct(TypeName(N_S, <<>>, N_S), ms, <<>>, None) :
                    ms \in HashMemberLists }
    /\ hsB \in
         { NewStruct(nm, ms, cs[1], cs[2]) :
             nm \in { TypeName(N_S, <<>>, N_S), TypeName(N_p_T, N_p, N_T) },
             ms \in HashMemberLists,
             cs \in { <<(<<>>), None>>,
                      << <<[typename |-> T_int8, membername |-> N_k,
                            val_str |-> <<"3">>, comment |-> None]>>,
                         <<"d", "o", "c">> >> } }
    /\ hdone = {}

\* parse_struct, line 699: structure.hash = hash_structure(structure)
store_hash ==
    \E which \in {"A", "B"} \ hdone :
        /\ hdone' = hdone \cup {which}
        /\ hsA' = IF which = "A"
                  THEN [hsA EXCEPT !.hash = hash_structure(hsA)] ELSE hsA
        /\ hsB' = IF which = "B"
                  THEN [hsB EXCEPT !.hash = hash_structure(hsB)] ELSE hsB

-----------------------------------------------------------------------------
(* The parser: main's loop over the input files, handle_file, parse_entity *)
(* and the functions below it, one step per lexer call.  The lexer is seen *)
(* here through tokenize_next / tokenize_peek: what a fresh scan delivers  *)
(* is drawn when the scan happens.                                         *)

VARIABLES
    lcmgen,    \* the Lcmgen: parse_cache, gopt, structs
    t,         \* the Tokenize of the file being read
    pc,        \* the call site the parser is at
    phase,     \* "cc": in the site's comment loop; "get": at its token call
    structure, \* parse_struct: the struct being built
    locals,    \* parse_member / parse_const: typename, membername, dimension
    status,    \* "running", or how the process ended
    suc,       \* main: what handle_file returned last
    fileno,    \* main: position in args.input_files of the current file
    nfiles,    \* len(args.input_files)
    scanned,   \* tokens scanned from the input files so far
    limit,     \* the number of tokens the input files hold at most
    out        \* messages printed that do not end the run

parservars ==
    <<lcmgen, t, pc, phase, structure, locals, status, suc, fileno, nfiles,
      scanned, limit, out>>

MaxTokens == 8
MaxBodyTokens == 7
MaxFiles == 2

TOK_SEMI == <<";">>
TOK_COMMA == <<",">>
TOK_OPEN == <<"{">>
TOK_CLOSE == <<"}">>
TOK_LBRACKET == <<"[">>
TOK_RBRACKET == <<"]">>
TOK_EQ == <<"=">>

N_a == <<"a">>
Lit100 == <<"1", "0", "0">>
Lit200 == <<"2", "0", "0">>

\* The token texts the input files are made of.
Vocabulary ==
    {KW_STRUCT, KW_PACKAGE, KW_CONST, KW_ENUM,
     TOK_SEMI, TOK_COMMA, TOK_OPEN, TOK_CLOSE, TOK_LBRACKET, TOK_RBRACKET,
     TOK_EQ, N_a, N_n, T_int8, Lit100, Lit200}

CommentTexts == {<<"c">>}

\* What one tokenize_next_internal call leaves behind: its return value (None
\* or the length pos), t.token, t.token_type, and whether the stream has
\* input left.
ScanResult(is_none, token, token_type, f) ==
    [res |-> [is_none |-> is_none, pos |-> IF is_none THEN 0 ELSE Len(token)],
     token |-> token, token_type |-> token_type, f |-> f]

EndOfFile == ScanResult(TRUE, <<>>, "INVALID", "eof")
\* 'ab : the third character is not the closing quote
MalformedCharLiteral == ScanResult(TRUE, <<"'", "a">>, "INVALID", "more")

Scans(tk, n) ==
    IF tk.f = "eof" \/ n >= limit THEN {EndOfFile}
    ELSE {EndOfFile, MalformedCharLiteral}
         \cup { ScanResult(FALSE, w, "OTHER", "more") : w \in Vocabulary }
         \cup { ScanResult(FALSE, c, "COMMENT", "more") : c \in CommentTexts }

ScanCost(tk, o) == IF o # EndOfFile THEN 1 ELSE 0

\* lcm_tokenize.create(path)
create(path) ==
    [path |-> path, token |-> <<>>, token_type |-> "INVALID", hasnext |-> 0,
     f |-> "more"]

NoTokenize ==
    [path |-> 0, token |-> <<>>, token_type |-> "INVALID", hasnext |-> 0,
     f |-> "eof"]

tokenize_next_internal(tk, o) ==
    [t |-> [tk EXCEPT !.token = o.token, !.token_type = o.token_type,
                      !.f = o.f],
     res |-> o.res]

tokenize_next(tk, o) ==
    IF tk.hasnext = 1
    THEN [t |-> [tk EXCEPT !.hasnext = 0],
          res |-> [is_none |-> FALSE, pos |-> 0]]
    ELSE tokenize_next_internal(tk, o)

tokenize_peek(tk, o) ==
    IF tk.hasnext = 1
    THEN [t |-> tk, res |-> [is_none |-> FALSE, pos |-> 0]]
    ELSE LET r == tokenize_next(tk, o)
         IN  IF ~r.res.is_none
             THEN [t |-> [r.t EXCEPT !.hasnext = 1], res |-> r.res]
             ELSE r

-----------------------------------------------------------------------------
(* Parser data                                                             *)

NewConstant(typename, membername, comment, val_str) ==
    [typename |-> typename, membername |-> membername, comment |-> comment,
     val_str |-> val_str]

NewDimension(mode, size) == [mode |-> mode, size |-> size]

create_lcmgen ==
    [parse_cache |-> [package |-> <<>>, comment_doc |-> None,
                      file_comment |-> None],
     structs |-> <<>>,
     gopt |-> [tokenize |-> FALSE, package_prefix |-> <<>>]]

\* lcmgen.gopt.get("package_prefix", ""): a missing key reads as the empty
\* string. main's argument parser defines no such option, so a run started
\* by main has the key missing; other callers of create_typename may set it.
gopt_package_prefix(gen) == gen.gopt.package_prefix

create_struct(gen, src_path, structname) ==
    [structname |-> create_typename(gen.parse_cache.package,
                                    gopt_package_prefix(gen), structname),
     members |-> <<>>, structs |-> <<>>, constants |-> <<>>,
     hash |-> Int64OfNat(0), comment |-> None, file_comment |-> None,
     lcmfile |-> src_path]

NoStructure ==
    [structname |-> TypeName(<<>>, <<>>, <<>>),
     members |-> <<>>, structs |-> <<>>, constants |-> <<>>,
     hash |-> Int64OfNat(0), comment |-> None, file_comment |-> None,
     lcmfile |-> 0]

NoLocals ==
    [typename |-> TypeName(<<>>, <<>>, <<>>), const_typename |-> <<>>,
     membername |-> <<>>, dim |-> NewDimension("CONST", <<>>)]

\* The first position of a for loop over a list at which the test holds, as
\* the lowest of the positions where it holds; 0 for None.
Lowest(at) == IF at = {} THEN 0 ELSE CHOOSE i \in at : \A j \in at : i <= j

\* A plausible slip: the loop stops one short and misses the newest member.
find_member_but_last(struct, name) ==
    Lowest({ i \in 1..(Len(struct.members) - 1) :
                struct.members[i].membername = name })

\* find_member, as the position of the member found (0 for None)
find_member(struct, name) ==
    Lowest({ i \in 1..Len(struct.members) :
                struct.members[i].membername = name })

\* find_const, as the position of the constant found (0 for None)
find_const(struct, name) ==
    Lowest({ i \in 1..Len(struct.constants) :
                struct.constants[i].membername = name })

\* A plausible slip: the two names are taken in the other order.
find_struct_swapped(gen, package, name) ==
    Lowest({ i \in 1..Len(gen.structs) :
                /\ gen.structs[i].structname.package = name
                /\ gen.structs[i].structname.shortname = package })

\* find_struct, as the position of the struct found (0 for None)
find_struct(gen, package, name) ==
    Lowest({ i \in 1..Len(gen.structs) :
                /\ gen.structs[i].structname.package = package
                /\ gen.structs[i].structname.shortname = name })

-----------------------------------------------------------------------------
(* What follows each lexer call.  m is the parser's data at the call:      *)
(* lcmgen, parse_struct's structure, and the locals of parse_member and    *)
(* parse_const.  The result says where control is next: at another call    *)
(* site, in sys.exit(1) through parse_error or semantic_error, or back in  *)
(* handle_file's loop with parse_entity's return value.                    *)

Goto(site, m) == [ctl |-> "goto", pc |-> site, m |-> m, printed |-> {}]

Fatal(kind, m) == [ctl |-> kind, pc |-> "exit", m |-> m, printed |-> {}]

Return(value, m, printed) ==
    [ctl |-> IF value THEN "return_true" ELSE "return_false",
     pc |-> "parse_entity", m |-> m, printed |-> printed]

\* parse_entity, after tokenize_next returned a token
after_parse_entity(tok, m) ==
    IF tok = KW_PACKAGE
    THEN Goto("package_name",
              [m EXCEPT !.lcmgen.parse_cache.file_comment =
                            m.lcmgen.parse_cache.comment_doc,
                        !.lcmgen.parse_cache.comment_doc = None])
    ELSE IF tok = KW_STRUCT THEN Goto("struct_name", m)
    ELSE IF tok = KW_ENUM
    THEN Return(FALSE, m, {[text |-> "Enums are no longer supported."]})
    ELSE Fatal("parse_error", m)

after_package_name(tok, m) ==
    Goto("package_semi", [m EXCEPT !.lcmgen.parse_cache.package = tok])

after_package_semi(m) == Return(TRUE, m, {})

\* parse_struct, from the struct name to parse_require("{")
after_struct_name(tok, m, lcmfile) ==
    LET cache == m.lcmgen.parse_cache
        made == create_struct(m.lcmgen, lcmfile, tok)
    IN  Goto("struct_open",
             [m EXCEPT !.structure =
                           [made EXCEPT !.file_comment = cache.file_comment,
                                        !.comment = cache.comment_doc],
                       !.lcmgen.parse_cache.file_comment = made.file_comment,
                       !.lcmgen.parse_cache.comment_doc = made.comment])

\* A variant that lists the struct with the hash create_struct gave it.
after_struct_close_unhashed(got, m) ==
    IF ~got THEN Goto("member_struct", m)
    ELSE IF find_struct(m.lcmgen, m.structure.structname.package,
                        m.structure.structname.shortname) # 0
    THEN Return(FALSE, m,
                {[text |-> "ERROR: Duplicate type",
                  lctypename |-> m.structure.structname.lctypename,
                  lcmfile |-> m.structure.lcmfile,
                  previous |->
                      m.lcmgen.structs[
                          find_struct(m.lcmgen,
                                      m.structure.structname.package,
                                      m.structure.structname.shortname)
                      ].lcmfile]})
    ELSE Return(TRUE, [m EXCEPT !.lcmgen.structs = Append(@, m.structure)],
                {})

\* A variant that puts the new struct at the head of the list.
after_struct_close_at_head(got, m) ==
    IF ~got THEN Goto("member_struct", m)
    ELSE IF find_struct(m.lcmgen, m.structure.structname.package,
                        m.structure.structname.shortname) # 0
    THEN Return(FALSE, m,
                {[text |-> "ERROR: Duplicate type",
                  lctypename |-> m.structure.structname.lctypename,
                  lcmfile |-> m.structure.lcmfile,
                  previous |->
                      m.lcmgen.structs[
                          find_struct(m.lcmgen,
                                      m.structure.structname.package,
                                      m.structure.structname.shortname)
                      ].lcmfile]})
    ELSE Return(TRUE,
                [m EXCEPT !.lcmgen.structs =
                    <<[m.structure EXCEPT
                          !.hash = hash_structure(m.structure)]>> \o @],
                {})

\* parse_struct's end and the rest of parse_entity
after_struct_close(got, m) ==
    IF ~got THEN Goto("member_struct", m)
    ELSE IF find_struct(m.lcmgen, m.structure.structname.package,
                        m.structure.structname.shortname) # 0
    THEN Return(FALSE, m,
                {[text |-> "ERROR: Duplicate type",
                  lctypename |-> m.structure.structname.lctypename,
                  lcmfile |-> m.structure.lcmfile,
                  previous |->
                      m.lcmgen.structs[
                          find_struct(m.lcmgen,
                                      m.structure.structname.package,
                                      m.structure.structname.shortname)
                      ].lcmfile]})
    ELSE Return(TRUE,
                [m EXCEPT !.lcmgen.structs =
                    Append(@, [m.structure EXCEPT
                                  !.hash = hash_structure(m.structure)])],
                {})

\* parse_member: if parse_try_consume(t, KW_STRUCT)
after_member_struct(got, m) ==
    IF got THEN Fatal("parse_error", m) ELSE Goto("member_enum", m)

\* parse_member: elif parse_try_consume(t, KW_ENUM)
after_member_enum(got, m) ==
    IF got THEN Fatal("parse_error", m) ELSE Goto("member_const", m)

\* parse_member: elif parse_try_consume(t, KW_CONST)
after_member_const(got, m) ==
    IF got THEN Goto("const_type", m) ELSE Goto("member_type", m)

after_member_type(tok, m) ==
    IF ~is_legal_member_name(tok) THEN Fatal("parse_error", m)
    ELSE [Goto("member_name",
               [m EXCEPT !.locals.typename =
                   create_typename(m.lcmgen.parse_cache.package,
                                   gopt_package_prefix(m.lcmgen), tok)])
            EXCEPT !.printed =
                IF tok = <<"i", "n", "t">>
                THEN {[text |-> "int type should probably be int8_t"]}
                ELSE {}]

after_member_name(tok, m) ==
    IF ~is_legal_member_name(tok) THEN Fatal("parse_error", m)
    ELSE IF find_const(m.structure, tok) # 0
            \/ find_member(m.structure, tok) # 0
    THEN Fatal("semantic_error", m)
    ELSE Goto("dim_open",
              [m EXCEPT !.locals.membername = tok,
                        !.lcmgen.parse_cache.comment_doc = None,
                        !.structure.members =
                            Append(@, NewMember(m.locals.typename, tok, <<>>,
                                       m.lcmgen.parse_cache.comment_doc))])

after_dim_open(got, m) ==
    IF got THEN Goto("dim_size", m) ELSE Goto("member_comma", m)

\* int(size_arg) <= 0 for a string of digits
NotPositive(size_arg) == \A i \in 1..Len(size_arg) : size_arg[i] = "0"

\* parse_member, lines 604-652: the dimension an array size token gives
array_size(struct, size_arg) ==
    IF size_arg = TOK_RBRACKET THEN [ctl |-> "semantic_error"]
    ELSE IF isdigit(size_arg)
    THEN IF NotPositive(size_arg) THEN [ctl |-> "semantic_error"]
         ELSE [ctl |-> "ok", dim |-> NewDimension("CONST", size_arg)]
    ELSE IF ~is_legal_member_name(size_arg) THEN [ctl |-> "semantic_error"]
    ELSE IF find_const(struct, size_arg) # 0
    THEN LET dim_const == struct.constants[find_const(struct, size_arg)]
         IN  IF dim_const.typename \notin CONST_TYPES
             THEN [ctl |-> "semantic_error"]
             ELSE [ctl |-> "ok",
                   dim |-> NewDimension("CONST", dim_const.val_str)]
    ELSE LET at == find_member(struct, size_arg)
         IN  IF at = 0 THEN [ctl |-> "semantic_error"]
             ELSE IF Len(struct.members[at].dimensions) # 0
                     \/ ~is_array_dimension_type(struct.members[at].type)
             THEN [ctl |-> "semantic_error"]
             ELSE [ctl |-> "ok", dim |-> NewDimension("VAR", size_arg)]

after_dim_size(tok, m) ==
    LET r == array_size(m.structure, tok)
    IN  IF r.ctl = "ok" THEN Goto("dim_close", [m EXCEPT !.locals.dim = r.dim])
        ELSE Fatal(r.ctl, m)

\* member.dimensions.append(dim): member is the one appended last
after_dim_close(m) ==
    Goto("dim_open",
         [m EXCEPT !.structure.members[Len(m.structure.members)].dimensions =
                       Append(@, m.locals.dim)])

after_member_comma(got, m) ==
    IF got THEN Goto("member_name", m) ELSE Goto("member_semi", m)

\* parse_member / parse_const return to parse_struct's loop
after_declaration_semi(m) ==
    Goto("struct_body", [m EXCEPT !.locals = NoLocals])

after_const_type(tok, m) ==
    IF tok \notin CONST_TYPES THEN Fatal("parse_error", m)
    ELSE Goto("const_name", [m EXCEPT !.locals.const_typename = tok])

after_const_name(tok, m) ==
    IF ~is_legal_member_name(tok) THEN Fatal("parse_error", m)
    ELSE IF find_const(m.structure, tok) # 0
            \/ find_member(m.structure, tok) # 0
    THEN Fatal("semantic_error", m)
    ELSE Goto("const_eq", [m EXCEPT !.locals.membername = tok])

after_const_eq(m) == Goto("const_value", m)

\* another_constant, lines 499-518: what the value text leads to
const_value(typename, valstr) ==
    IF typename \in DOMAIN INT_TYPES
    THEN IF int_base0(valstr) = ValueError THEN "parse_error"
         ELSE IF ~int_in_type_bounds(int_base0(valstr), typename)
         THEN "semantic_error"
         ELSE "ok"
    ELSE IF typename \in {T_float, T_double}
    THEN IF ~float_parses(valstr) THEN "parse_error" ELSE "ok"
    ELSE "AssertionError"

after_const_value(tok, m) ==
    LET comment == m.lcmgen.parse_cache.comment_doc
        fetched == [m EXCEPT !.lcmgen.parse_cache.comment_doc = None]
        r == const_value(m.locals.const_typename, tok)
    IN  IF r # "ok" THEN Fatal(r, fetched)
        ELSE Goto("const_comma",
                  [fetched EXCEPT !.structure.constants =
                      Append(@, NewConstant(m.locals.const_typename,
                                            m.locals.membername, comment,
                                            tok))])

after_const_comma(got, m) ==
    IF got THEN Goto("const_name", m) ELSE Goto("const_semi", m)

NofSites ==
    {"package_name", "struct_name", "member_type", "member_name", "dim_size",
     "const_type", "const_name", "const_value"}

RequireSites ==
    {"package_semi", "struct_open", "dim_close", "member_semi", "const_eq",
     "const_semi"}

TrySites ==
    {"struct_close", "member_struct", "member_enum", "member_const",
     "dim_open", "member_comma", "const_comma"}

\* The token parse_require / parse_try_consume is called with at each site
SiteToken ==
    [site \in RequireSites \cup TrySites |->
        CASE site \in {"package_semi", "member_semi", "const_semi"} -> TOK_SEMI
          [] site = "struct_open" -> TOK_OPEN
          [] site = "struct_close" -> TOK_CLOSE
          [] site = "dim_open" -> TOK_LBRACKET
          [] site = "dim_close" -> TOK_RBRACKET
          [] site = "const_eq" -> TOK_EQ
          [] site \in {"member_comma", "const_comma"} -> TOK_COMMA
          [] site = "member_struct" -> KW_STRUCT
          [] site = "member_enum" -> KW_ENUM
          [] site = "member_const" -> KW_CONST]

After(site, got, tok, m, lcmfile) ==
    CASE site = "parse_entity" -> after_parse_entity(tok, m)
      [] site = "package_name" -> after_package_name(tok, m)
      [] site = "package_semi" -> after_package_semi(m)
      [] site = "struct_name" -> after_struct_name(tok, m, lcmfile)
      [] site = "struct_open" -> Goto("struct_body", m)
      [] site = "struct_close" -> after_struct_close(got, m)
      [] site = "member_struct" -> after_member_struct(got, m)
      [] site = "member_enum" -> after_member_enum(got, m)
      [] site = "member_const" -> after_member_const(got, m)
      [] site = "member_type" -> after_member_type(tok, m)
      [] site = "member_name" -> after_member_name(tok, m)
      [] site = "dim_open" -> after_dim_open(got, m)
      [] site = "dim_size" -> after_dim_size(tok, m)
      [] site = "dim_close" -> after_dim_close(m)
      [] site = "member_comma" -> after_member_comma(got, m)
      [] site = "member_semi" -> after_declaration_semi(m)
      [] site = "const_type" -> after_const_type(tok, m)
      [] site = "const_name" -> after_const_name(tok, m)
      [] site = "const_eq" -> after_const_eq(m)
      [] site = "const_value" -> after_const_value(tok, m)
      [] site = "const_comma" -> after_const_comma(got, m)
      [] site = "const_semi" -> after_declaration_semi(m)

-----------------------------------------------------------------------------
(* The steps of the run.  A step is one scan of the input together with    *)
(* everything the parser does until it needs the next scan: the calls that *)
(* find a peeked token pending, or the stream at its end, take no input    *)
(* and are part of the step that scanned last.                             *)

\* The sites whose comment loop runs with store_comment_doc=True
StoreSites == {"parse_entity", "struct_body"}

ParserSites == NofSites \cup RequireSites \cup TrySites \cup StoreSites

\* The parser between two lexer calls
Now ==
    [lcmgen |-> lcmgen, t |-> t, pc |-> pc, phase |-> phase,
     structure |-> structure, locals |-> locals, status |-> status,
     suc |-> suc, out |-> out]

ParserData(c) ==
    [lcmgen |-> c.lcmgen, structure |-> c.structure, locals |-> c.locals]

\* A variant that starts the comment loop with an empty package as well.
ForgetPackage(gen) ==
    [gen EXCEPT !.parse_cache.comment_doc = None,
                !.parse_cache.package = <<>>]

ClearCommentDoc(gen) == [gen EXCEPT !.parse_cache.comment_doc = None]

\* Take up the parser where k says, with the lexer left as tk.  Entering a
\* site that stores comments starts its
\* parse_try_consume_comment(lcmgen, t, True), which clears comment_doc.
Resume(c, k, tk) ==
    CASE k.ctl = "goto" ->
           [c EXCEPT !.pc = k.pc, !.phase = "cc",
                     !.lcmgen = IF k.pc \in StoreSites
                                THEN ClearCommentDoc(k.m.lcmgen)
                                ELSE k.m.lcmgen,
                     !.structure = k.m.structure, !.locals = k.m.locals,
                     !.t = tk, !.out = @ \cup k.printed]
      [] k.ctl = "return_true" ->
           \* handle_file: while res: res = parse_entity(...)
           [c EXCEPT !.pc = "parse_entity", !.phase = "cc",
                     !.lcmgen = ClearCommentDoc(k.m.lcmgen),
                     !.structure = NoStructure, !.locals = NoLocals,
                     !.t = tk, !.out = @ \cup k.printed]
      [] k.ctl = "return_false" ->
           \* handle_file: t.f.close(); return True
           [c EXCEPT !.pc = "main", !.phase = "none",
                     !.lcmgen = k.m.lcmgen,
                     !.structure = NoStructure, !.locals = NoLocals,
                     !.t = [tk EXCEPT !.f = "closed", !.hasnext = 0],
                     !.suc = "True", !.out = @ \cup k.printed]
      [] OTHER ->
           \* parse_error, semantic_error: sys.exit(1) at this site
           [c EXCEPT !.lcmgen = k.m.lcmgen,
                     !.structure = NoStructure, !.locals = NoLocals,
                     !.t = tk, !.status = k.ctl]

\* One turn of parse_try_consume_comment's loop at the current site
comment_loop(c, o) ==
    LET r == tokenize_peek(c.t, o)
    IN  IF ~r.res.is_none /\ r.t.token_type = "COMMENT"
        THEN [c EXCEPT !.t = tokenize_next(r.t, o).t,
                       !.lcmgen =
                          IF c.pc \in StoreSites
                          THEN [@ EXCEPT !.parse_cache.comment_doc =
                                   IF @ = None THEN r.t.token
                                   ELSE @ \o <<"\n">> \o r.t.token]
                          ELSE @]
        ELSE [c EXCEPT !.t = r.t,
                       !.pc = IF @ = "struct_body" THEN "struct_close" ELSE @,
                       !.phase = IF c.pc = "struct_body" THEN "cc" ELSE "get"]

\* parse_entity: res = tokenize_next(t), and what the token leads to
entity_token(c, o) ==
    LET r == tokenize_next(c.t, o)
    IN  IF r.res.is_none
        THEN Resume(c, Return(FALSE, ParserData(c), {}), r.t)
        ELSE Resume(c, After(c.pc, TRUE, r.t.token, ParserData(c), c.t.path),
                    r.t)

next_or_fail(c, o) ==
    LET r == tokenize_next(c.t, o)
    IN  IF r.res.is_none
        THEN Resume(c, Fatal("parse_error", ParserData(c)), r.t)
        ELSE Resume(c, After(c.pc, TRUE, r.t.token, ParserData(c), c.t.path),
                    r.t)

\* parse_require after its comment loop: one tokenize_next, repeated while
\* the token is a comment
require(c, o) ==
    LET r == tokenize_next(c.t, o)
    IN  IF r.t.token_type = "COMMENT" THEN [c EXCEPT !.t = r.t]
        ELSE IF r.res.is_none \/ r.t.token # SiteToken[c.pc]
        THEN Resume(c, Fatal("parse_error", ParserData(c)), r.t)
        ELSE Resume(c, After(c.pc, TRUE, r.t.token, ParserData(c), c.t.path),
                    r.t)

\* parse_try_consume after its comment loop
try_consume(c, o) ==
    LET r == tokenize_peek(c.t, o)
        get_next == r.t.token_type # "COMMENT" /\ r.t.token = SiteToken[c.pc]
    IN  IF r.res.is_none
        THEN Resume(c, Fatal("parse_error", ParserData(c)), r.t)
        ELSE Resume(c, After(c.pc, get_next, r.t.token, ParserData(c),
                             c.t.path),
                    IF get_next THEN tokenize_next(r.t, o).t ELSE r.t)

\* The lexer call the parser is at
Call(c, o) ==
    IF c.phase = "cc" THEN comment_loop(c, o)
    ELSE IF c.pc = "parse_entity" THEN entity_token(c, o)
    ELSE IF c.pc \in NofSites THEN next_or_fail(c, o)
    ELSE IF c.pc \in RequireSites THEN require(c, o)
    ELSE try_consume(c, o)

\* More calls follow without input: the next one takes the pending token,
\* or the stream has ended.
NoInputNeeded(c) ==
    /\ c.status = "running"
    /\ c.pc \in ParserSites
    /\ (c.t.hasnext = 1 \/ c.t.f = "eof")

RECURSIVE Advance(_, _), Settle(_)
\* The call that scans o, and the calls after it that read no input
Advance(c, o) == Settle(Call(c, o))

\* The parser at its next scan, or at its end
Settle(c) == IF NoInputNeeded(c) THEN Advance(c, EndOfFile) ELSE c

Become(c, n) ==
    /\ lcmgen' = c.lcmgen
    /\ t' = c.t
    /\ pc' = c.pc
    /\ phase' = c.phase
    /\ structure' = c.structure
    /\ locals' = c.locals
    /\ status' = c.status
    /\ suc' = c.suc
    /\ out' = c.out
    /\ scanned' = n
    /\ UNCHANGED <<fileno, nfiles, limit>>

\* main: the next handle_file(gen, Path(path)) call, up to the first
\* parse_entity; on a failure to open, main's sys.exit(1)
handle_file ==
    /\ status = "running"
    /\ pc = "main"
    /\ fileno < nfiles
    /\ fileno' = fileno + 1
    /\ \E opened \in BOOLEAN :
         IF ~opened
         THEN /\ out' = out \cup {[text |-> "Failed to open",
                                   lcmfile |-> fileno + 1]}
              /\ suc' = "False"
              /\ status' = "exit1"
              /\ UNCHANGED <<lcmgen, t, pc, phase>>
         ELSE /\ t' = create(fileno + 1)
              /\ pc' = IF lcmgen.gopt.tokenize THEN "tokenize"
                       ELSE "parse_entity"
              /\ phase' = IF lcmgen.gopt.tokenize THEN "get" ELSE "cc"
              /\ lcmgen' = IF lcmgen.gopt.tokenize THEN lcmgen
                           ELSE ClearCommentDoc(lcmgen)
              /\ UNCHANGED <<out, suc, status>>
    /\ UNCHANGED <<structure, locals, nfiles, scanned, limit>>

\* handle_file with the tokenize option: one turn of the printing loop
handle_file_tokenize ==
    /\ status = "running"
    /\ pc = "tokenize"
    /\ \E o \in Scans(t, scanned) :
         LET r == tokenize_next(t, o)
         IN  /\ scanned' = scanned + ScanCost(t, o)
             /\ IF r.res.is_none
                THEN /\ pc' = "main"
                     /\ phase' = "none"
                     /\ suc' = "True"
                ELSE UNCHANGED <<pc, phase, suc>>
             /\ t' = r.t
    /\ UNCHANGED <<lcmgen, structure, locals, status, fileno, nfiles, limit,
                   out>>

\* main: the loop over args.input_files is over
main_exit ==
    /\ status = "running"
    /\ pc = "main"
    /\ fileno = nfiles
    /\ status' = "exit0"
    /\ UNCHANGED <<lcmgen, t, pc, phase, structure, locals, suc, fileno, nfiles,
                   scanned, limit, out>>

\* A scan made by the comment loop of the current site
parse_try_consume_comment ==
    /\ status = "running"
    /\ pc \in ParserSites
    /\ phase = "cc"
    /\ \E o \in Scans(t, scanned) :
         Become(Advance(Now, o), scanned + ScanCost(t, o))

\* A scan made by parse_entity's tokenize_next
parse_entity ==
    /\ status = "running"
    /\ pc = "parse_entity"
    /\ phase = "get"
    /\ \E o \in Scans(t, scanned) :
         Become(Advance(Now, o), scanned + ScanCost(t, o))

\* A scan made by tokenize_next_or_fail
tokenize_next_or_fail ==
    /\ status = "running"
    /\ pc \in NofSites
    /\ phase = "get"
    /\ \E o \in Scans(t, scanned) :
         Become(Advance(Now, o), scanned + ScanCost(t, o))

\* A scan made by parse_require
parse_require ==
    /\ status = "running"
    /\ pc \in RequireSites
    /\ phase = "get"
    /\ \E o \in Scans(t, scanned) :
         Become(Advance(Now, o), scanned + ScanCost(t, o))

\* A scan made by parse_try_consume
parse_try_consume ==
    /\ status = "running"
    /\ pc \in TrySites
    /\ phase = "get"
    /\ \E o \in Scans(t, scanned) :
         Become(Advance(Now, o), scanned + ScanCost(t, o))

InitParser ==
    /\ lcmgen \in { [create_lcmgen EXCEPT !.gopt.tokenize = tokenize] :
                       tokenize \in BOOLEAN }
    /\ nfiles = MaxFiles
    /\ fileno = 0
    /\ t = NoTokenize
    /\ pc = "main"
    /\ phase = "none"
    /\ structure = NoStructure
    /\ locals = NoLocals
    /\ status = "running"
    /\ suc = "unset"
    /\ scanned = 0
    /\ limit = MaxTokens
    /\ out = {}

\* parse_struct in the first file, at the top of its loop: "struct a {" has
\* been read.
InitStructBody ==
    /\ lcmgen = create_lcmgen
    /\ nfiles = MaxFiles
    /\ fileno = 1
    /\ t = [create(1) EXCEPT !.token = TOK_OPEN, !.token_type = "OTHER"]
    /\ pc = "struct_body"
    /\ phase = "cc"
    /\ structure = create_struct(create_lcmgen, 1, N_a)
    /\ locals = NoLocals
    /\ status = "running"
    /\ suc = "unset"
    /\ scanned = 3
    /\ limit = 3 + MaxBodyTokens
    /\ out = {}

MaxLiterals == 1

\* Literal texts for constant values: the ends of the four ranges and their
\* neighbours, and texts int() reads differently or not at all.
ConstLiterals ==
    { <<"0">>, <<"-", "0">>, <<"+", "5">>, <<"0", "1", "0">>,
      <<"1", ".", "5">>, <<"a">>, <<"1", "0", "0">>, <<"2", "0", "0">>,
      <<"1", "2", "7">>, <<"1", "2", "8">>,
      <<"-", "1", "2", "8">>, <<"-", "1", "2", "9">>,
      <<"3", "2", "7", "6", "7">>, <<"3", "2", "7", "6", "8">>,
      <<"-", "3", "2", "7", "6", "8">>, <<"-", "3", "2", "7", "6", "9">>,
      <<"2", "1", "4", "7", "4", "8", "3", "6", "4", "7">>,
      <<"2", "1", "4", "7", "4", "8", "3", "6", "4", "8">>,
      <<"-", "2", "1", "4", "7", "4", "8", "3", "6", "4", "8">>,
      <<"-", "2", "1", "4", "7", "4", "8", "3", "6", "4", "9">>,
      <<"9", "2", "2", "3", "3", "7", "2", "0", "3", "6", "8", "5", "4", "7",
        "7", "5", "8", "0", "7">>,
      <<"9", "2", "2", "3", "3", "7", "2", "0", "3", "6", "8", "5", "4", "7",
        "7", "5", "8", "0", "8">>,
      <<"-", "9", "2", "2", "3", "3", "7", "2", "0", "3", "6", "8", "5", "4",
        "7", "7", "5", "8", "0", "8">>,
      <<"-", "9", "2", "2", "3", "3", "7", "2", "0", "3", "6", "8", "5", "4",
        "7", "7", "5", "8", "0", "9">> }

\* another_constant in the first file, before the value: "struct a { const
\* T n =" has been read, for a const type T.
InitConstValue ==
    /\ lcmgen = create_lcmgen
    /\ nfiles = MaxFiles
    /\ fileno = 1
    /\ t = [create(1) EXCEPT !.token = TOK_EQ, !.token_type = "OTHER"]
    /\ pc = "const_value"
    /\ phase = "cc"
    /\ structure = create_struct(create_lcmgen, 1, N_a)
    /\ locals \in { [NoLocals EXCEPT !.const_typename = type,
                                      !.membername = N_n] :
                       type \in CONST_TYPES }
    /\ status = "running"
    /\ suc = "unset"
    /\ scanned = 7
    /\ limit = 7 + MaxLiterals
    /\ out = {}

\* tokenize_next_or_fail(t, "constant value") reads a literal, and the rest
\* of another_constant
const_value_token ==
    /\ status = "running"
    /\ pc = "const_value"
    /\ scanned < limit
    /\ \E valstr \in ConstLiterals :
         Become(Advance(Now, ScanResult(FALSE, valstr, "OTHER", "more")),
                scanned + 1)

\* The parser after the tokens toks[i..] were scanned one after the other.
RECURSIVE Read(_, _, _)
Read(c, toks, i) ==
    IF i > Len(toks) THEN c
    ELSE Read(Advance(c, ScanResult(FALSE, toks[i], "OTHER", "more")),
              toks, i + 1)

MaxSizeTokens == 5

\* The values of the constant an array size may name.
SizeLiterals ==
    {<<"1">>, <<"0">>, <<"-", "1">>, <<"1", "0", "0">>, <<"1", ".", "5">>}

\* parse_member in the first file, before an array size: "struct a { const
\* T n = v ; int8_t a [" has been read, for a const type T and a value v that
\* another_constant accepts for it.
ArraySizeStarts ==
    { c \in { Read([lcmgen |-> create_lcmgen,
                    t |-> [create(1) EXCEPT !.token = TOK_EQ,
                                            !.token_type = "OTHER"],
                    pc |-> "const_value", phase |-> "cc",
                    structure |-> create_struct(create_lcmgen, 1, N_a),
                    locals |-> [NoLocals EXCEPT !.const_typename = type,
                                                !.membername = N_n],
                    status |-> "running", suc |-> "unset", out |-> {}],
                   <<v, TOK_SEMI, T_int8, N_a, TOK_LBRACKET>>, 1) :
               type \in CONST_TYPES, v \in SizeLiterals } :
        c.status = "running" /\ c.pc = "dim_size" }

InitArraySize ==
    /\ \E c \in ArraySizeStarts :
          /\ lcmgen = c.lcmgen
          /\ t = c.t
          /\ pc = c.pc
          /\ phase = c.phase
          /\ structure = c.structure
          /\ locals = c.locals
          /\ status = c.status
          /\ suc = c.suc
          /\ out = c.out
    /\ nfiles = MaxFiles
    /\ fileno = 1
    /\ scanned = 12
    /\ limit = 12 + MaxSizeTokens

\* The names given to create_typename, and the packages and package prefixes
\* it is called under.
RawTypenames ==
    {N_a, N_n, N_S, N_foo, N_p_bar, N_p_T, T_int8, T_double, T_string,
     T_boolean, <<".", "a">>, <<"a", ".">>, <<".">>, <<".", ".", "a">>,
     <<"p", ".", "q", ".", "a">>, <<"q", ".", "a">>,
     <<"p", ".">> \o T_int8, <<"i", "n", "t">>, <<"_">>, <<"a", ".", "a">>}
PackagesNow == {<<>>, N_p, <<"p", ".", "q">>}
PackagePrefixes == {<<>>, <<"x">>, <<"x", ".", "y">>}

\* parse_struct in the first file, before the name: "struct" has been read
\* under a package and a package prefix.
InitStructName ==
    /\ lcmgen \in { [create_lcmgen EXCEPT !.parse_cache.package = package,
                                          !.gopt.package_prefix = prefix] :
                       package \in PackagesNow, prefix \in PackagePrefixes }
    /\ nfiles = MaxFiles
    /\ fileno = 1
    /\ t = [create(1) EXCEPT !.token = KW_STRUCT, !.token_type = "OTHER"]
    /\ pc = "struct_name"
    /\ phase = "cc"
    /\ structure = NoStructure
    /\ locals = NoLocals
    /\ status = "running"
    /\ suc = "unset"
    /\ scanned = 1
    /\ limit = 2
    /\ out = {}

\* tokenize_next_or_fail(t, "struct name") reads a name, and create_struct
\* resolves it
struct_name_token ==
    /\ status = "running"
    /\ pc = "struct_name"
    /\ scanned < limit
    /\ \E raw \in RawTypenames :
         Become(Advance(Now, ScanResult(FALSE, raw, "OTHER", "more")),
                scanned + 1)

\* No run of the program: the state the other specifications keep fixed.
ParserIdle ==
    /\ lcmgen = create_lcmgen
    /\ nfiles = 0
    /\ fileno = 0
    /\ t = NoTokenize
    /\ pc = "main"
    /\ phase = "none"
    /\ structure = NoStructure
    /\ locals = NoLocals
    /\ status = "running"
    /\ suc = "unset"
    /\ scanned = 0
    /\ limit = 0
    /\ out = {}

-----------------------------------------------------------------------------
(* The tokenizer, character by character (lcm_tokenize.py)                 *)

VARIABLES
    tz,        \* the Tokenize object, t.f being the unread text of its file
    text,      \* the contents of the file the tokenizer was created on
    returned,  \* what each tokenize_next call made so far has left behind
    chars      \* the next_char and unget calls made on the tokenizer itself

lexervars == <<tz, text, returned, chars>>

MaxInput == 4
MaxCalls == 4
MaxCommentLines == 2
MaxCharInput == 3
MaxCharCalls == 6

\* A character is a string of length one; the empty string and None are the
\* values Python's truth test rejects.
Truthy(c) == c # None /\ c # <<>>

\* str.isspace() on one character
isspace(c) == c \in {<<" ">>, <<"\t">>, <<"\n">>, <<"\r">>, <<"\f">>}

OPERATOR_CHARS ==
    {<<"!">>, <<"~">>, <<"<">>, <<">">>, <<"=">>, <<"&">>, <<"|">>, <<"^">>,
     <<"%">>, <<"*">>, <<"+">>}

SINGLE_CHAR_TOKENS ==
    {<<"(">>, <<")">>, <<";">>, <<"\"">>, <<",">>, <<":">>, <<"'">>, <<"[">>,
     <<"]">>}

create_tokenize(path, contents) ==
    [path |-> path, f |-> contents,
     token |-> <<>>, token_line |-> -1, token_column |-> -1,
     buffer |-> <<>>, buffer_column |-> 0, buffer_len |-> 0,
     buffer_line |-> 0,
     hasnext |-> 0,
     current_char |-> <<>>, current_column |-> 0, current_line |-> 0,
     unget_char |-> None, unget_column |-> 0, unget_line |-> 0,
     token_type |-> "INVALID"]

\* t.f.readline(): the unread text up to and including its first newline
RECURSIVE line_end(_, _)
line_end(f, i) ==
    IF i > Len(f) THEN Len(f)
    ELSE IF f[i] = "\n" THEN i
    ELSE line_end(f, i + 1)

readline(f) ==
    [line |-> SubSeq(f, 1, line_end(f, 1)),
     f |-> SubSeq(f, line_end(f, 1) + 1, Len(f))]

\* next_char, lines 104..110
buffer_char(tk) ==
    [t |-> [tk EXCEPT !.current_char = <<tk.buffer[tk.buffer_column + 1]>>,
                      !.current_line = tk.buffer_line,
                      !.current_column = tk.buffer_column,
                      !.buffer_column = tk.buffer_column + 1],
     c |-> <<tk.buffer[tk.buffer_column + 1]>>]

\* next_char, lines 95..101, on the line that readline returned
refill(tk, r) ==
    IF r.line = <<>>
    THEN [t |-> [tk EXCEPT !.buffer = <<>>, !.f = r.f], c |-> None]
    ELSE buffer_char([tk EXCEPT !.buffer = r.line, !.f = r.f,
                                !.buffer_len = Len(r.line),
                                !.buffer_line = tk.buffer_line + 1,
                                !.buffer_column = 0])

next_char(tk) ==
    IF Truthy(tk.unget_char)
    THEN [t |-> [tk EXCEPT !.current_char = tk.unget_char,
                           !.current_line = tk.unget_line,
                           !.current_column = tk.unget_column,
                           !.unget_char = None],
          c |-> tk.unget_char]
    ELSE IF tk.buffer_column = tk.buffer_len
    THEN refill(tk, readline(tk.f))
    ELSE buffer_char(tk)

\* A plausible slip: the column saved is the one of the character to read
\* next, not the one of the character pushed back.
unget_at_buffer_column(tk) ==
    [tk EXCEPT !.unget_char = tk.current_char,
               !.unget_line = tk.current_line,
               !.unget_column = tk.buffer_column]

unget(tk) ==
    [tk EXCEPT !.unget_char = tk.current_char,
               !.unget_line = tk.current_line,
               !.unget_column = tk.current_column]

add_char_to_token(tk, c) == [tk EXCEPT !.token = tk.token \o c]

unescape(c) ==
    IF c = None THEN None
    ELSE IF c = <<"n">> THEN <<"\n">>
    ELSE IF c = <<"r">> THEN <<"\r">>
    ELSE IF c = <<"t">> THEN <<"\t">>
    ELSE c

\* What a tokenizer function returns, with the object it leaves behind.
ReturnPos(tk, pos) == [t |-> tk, res |-> [is_none |-> FALSE, pos |-> pos]]
ReturnNone(tk) == [t |-> tk, res |-> [is_none |-> TRUE, pos |-> 0]]

\* tokenize_extended_comment: r is the tokenizer with the character c read
\* last, pos the length counted so far, start the value of pos_line_start.
RECURSIVE comment_line(_, _), comment_leading(_, _, _),
          comment_asterisks(_, _, _, _), comment_rest(_, _, _)

\* lines 172..181
comment_rest_next(r, pos, start, last_c) ==
    Strict(r, IF last_c = <<"*">> /\ r.c = <<"/">>
              THEN ReturnPos([r.t EXCEPT !.token_type = "COMMENT"], pos - 1)
              ELSE comment_rest(r, pos, start))

\* lines 184..192
comment_eol(r, pos, start) ==
    IF ~Truthy(r.c) THEN ReturnNone(r.t)
    ELSE IF start # pos THEN comment_line(add_char_to_token(r.t, r.c), pos + 1)
    ELSE comment_line(r.t, pos)

comment_rest(r, pos, start) ==
    Strict(r, IF Truthy(r.c) /\ r.c # <<"\n">>
              THEN comment_rest_next(next_char(add_char_to_token(r.t, r.c)),
                                     pos + 1, start, r.c)
              ELSE comment_eol(r, pos, start))

\* lines 160..169, after asterisks: the token is cut back to the line start
comment_strip(tk, c, start) ==
    IF c = <<"/">>
    THEN ReturnPos([tk EXCEPT !.token = SubSeq(tk.token, 1, start),
                              !.token_type = "COMMENT"], start)
    ELSE IF c = <<" ">>
    THEN comment_rest(next_char([tk EXCEPT !.token = SubSeq(tk.token, 1, start)]),
                      start, start)
    ELSE comment_rest([t |-> [tk EXCEPT !.token = SubSeq(tk.token, 1, start)],
                       c |-> c], start, start)

\* lines 152..157
comment_asterisks(r, pos, start, got_asterisk) ==
    Strict(r, IF r.c = <<"*">>
              THEN comment_asterisks(next_char(add_char_to_token(r.t, r.c)),
                                     pos + 1, start, TRUE)
              ELSE IF got_asterisk THEN comment_strip(r.t, r.c, start)
              ELSE comment_rest(r, pos, start))

\* lines 143..149
comment_leading(r, pos, start) ==
    Strict(r, IF r.c = <<" ">> \/ r.c = <<"\t">>
              THEN comment_leading(next_char(add_char_to_token(r.t, r.c)),
                                   pos + 1, start)
              ELSE comment_asterisks(r, pos, start, FALSE))

\* one round of the loop of line 138
comment_line(tk, pos) == comment_leading(next_char(tk), pos, pos)

tokenize_extended_comment(tk) ==
    comment_line([tk EXCEPT !.token = <<>>], 0)

\* lines 247..262, the quote being in the token
char_literal_close(r) ==
    Strict(r, IF r.c # <<"'">> THEN ReturnNone(r.t)
              ELSE ReturnPos([r.t EXCEPT !.token = r.t.token \o r.c,
                                         !.token_type = "OTHER"], 3))

char_literal_body(tk, c) ==
    IF ~Truthy(c) THEN ReturnNone(tk)
    ELSE char_literal_close(next_char(add_char_to_token(tk, c)))

char_literal_unescape(r) == Strict(r, char_literal_body(r.t, unescape(r.c)))

char_literal(r) ==
    Strict(r, IF r.c = <<"\\">> THEN char_literal_unescape(next_char(r.t))
              ELSE char_literal_body(r.t, r.c))

\* A plausible slip: the escaped character is appended, as the lines 282 and
\* 283 would do if they were not commented out.
RECURSIVE string_literal_keeps_escaped(_, _)
string_literal_keeps_escaped(r, escape_next) ==
    Strict(r, IF r.c = None THEN ReturnNone(r.t)
              ELSE IF escape_next
              THEN string_literal_keeps_escaped(
                       next_char(add_char_to_token(r.t, unescape(r.c))), FALSE)
              ELSE IF r.c = <<"\"">>
              THEN ReturnPos(add_char_to_token(r.t, r.c), Len(r.t.token) + 1)
              ELSE IF r.c = <<"\\">>
              THEN string_literal_keeps_escaped(next_char(r.t), TRUE)
              ELSE string_literal_keeps_escaped(
                       next_char(add_char_to_token(r.t, r.c)), FALSE))

\* lines 274..299
RECURSIVE string_literal(_, _)
string_literal(r, escape_next) ==
    Strict(r, IF r.c = None THEN ReturnNone(r.t)
              ELSE IF escape_next THEN string_literal(next_char(r.t), FALSE)
              ELSE IF r.c = <<"\"">>
              THEN ReturnPos(add_char_to_token(r.t, r.c), Len(r.t.token) + 1)
              ELSE IF r.c = <<"\\">> THEN string_literal(next_char(r.t), TRUE)
              ELSE string_literal(next_char(add_char_to_token(r.t, r.c)),
                                  FALSE))

\* lines 304..309
RECURSIVE operator_run(_)
operator_run(r) ==
    Strict(r, IF r.c \in OPERATOR_CHARS
              THEN operator_run(next_char(add_char_to_token(r.t, r.c)))
              ELSE ReturnPos(unget(r.t), Len(r.t.token)))

\* A plausible slip: one space is skipped where the loop of line 333 skips
\* them all.
strip_spaces_once(r) ==
    Strict(r, IF r.c = <<" ">> THEN next_char(r.t) ELSE r)

\* lines 328..344
RECURSIVE strip_slashes(_), strip_spaces(_), line_comment_text(_)
strip_slashes(r) ==
    Strict(r, IF r.c = <<"/">> THEN strip_slashes(next_char(r.t)) ELSE r)

strip_spaces(r) ==
    Strict(r, IF r.c = <<" ">> THEN strip_spaces(next_char(r.t)) ELSE r)

line_comment_text(r) ==
    Strict(r, IF Truthy(r.c) /\ r.c # <<"\n">>
              THEN line_comment_text(next_char(add_char_to_token(r.t, r.c)))
              ELSE ReturnPos(unget(r.t), Len(r.t.token)))

line_comment_start(r) ==
    Strict(r, line_comment_text([t |-> [r.t EXCEPT !.token = <<>>],
                                 c |-> r.c]))

line_comment(tk) ==
    line_comment_start(strip_spaces(strip_slashes(
        next_char([tk EXCEPT !.token_type = "COMMENT"]))))

\* lines 316..349, the slash being in the token
slash(r) ==
    Strict(r, IF ~Truthy(r.c)
              THEN ReturnPos([r.t EXCEPT !.token_type = "OTHER"], 1)
              ELSE IF r.c = <<"*">> THEN tokenize_extended_comment(r.t)
              ELSE IF r.c = <<"/">> THEN line_comment(r.t)
              ELSE ReturnPos(unget([r.t EXCEPT !.token_type = "OTHER"]), 1))

\* lines 355..367
RECURSIVE blob(_)
blob_next(r) ==
    Strict(r, IF r.c \in SINGLE_CHAR_TOKENS \/ r.c \in OPERATOR_CHARS
              THEN ReturnPos(unget(r.t), Len(r.t.token))
              ELSE blob(r))

blob_added(tk, c) ==
    IF c \in SINGLE_CHAR_TOKENS THEN ReturnPos(tk, Len(tk.token))
    ELSE blob_next(next_char(tk))

blob(r) ==
    Strict(r, IF Truthy(r.c) /\ ~isspace(r.c)
              THEN blob_added(add_char_to_token(r.t, r.c), r.c)
              ELSE ReturnPos(r.t, Len(r.t.token)))

\* lines 239..367: a token starts with the character c
token_start(tk, c) ==
    IF c = <<"'">> THEN char_literal(next_char(add_char_to_token(tk, c)))
    ELSE IF c = <<"\"">>
    THEN string_literal(next_char(add_char_to_token(tk, c)), FALSE)
    ELSE IF c \in OPERATOR_CHARS
    THEN operator_run([t |-> [tk EXCEPT !.token_type = "OTHER"], c |-> c])
    ELSE IF c = <<"/">> THEN slash(next_char(add_char_to_token(tk, c)))
    ELSE blob([t |-> [tk EXCEPT !.token_type = "OTHER"], c |-> c])

\* lines 231..241
RECURSIVE skip_whitespace(_)
skip_whitespace(r) ==
    Strict(r, IF Truthy(r.c) /\ isspace(r.c)
              THEN skip_whitespace(next_char(r.t))
              ELSE IF ~Truthy(r.c) THEN ReturnNone(r.t)
              ELSE token_start([r.t EXCEPT
                                    !.token_line = r.t.current_line,
                                    !.token_column = r.t.current_column],
                               r.c))

\* tokenize_next_internal on the characters of the file
scan_next_internal(tk) ==
    skip_whitespace(next_char([tk EXCEPT !.token_type = "INVALID",
                                         !.token = <<>>]))

\* tokenize_next on the characters of the file
scan_next(tk) ==
    IF tk.hasnext # 0
    THEN ReturnPos([tk EXCEPT !.hasnext = 0], 0)
    ELSE scan_next_internal(tk)

peeked(r) ==
    Strict(r, IF ~r.res.is_none
              THEN [t |-> [r.t EXCEPT !.hasnext = 1], res |-> r.res]
              ELSE r)

\* tokenize_peek on the characters of the file
scan_peek(tk) ==
    IF tk.hasnext # 0 THEN ReturnPos(tk, 0) ELSE peeked(scan_next(tk))

\* What a caller sees after a call: the return value and the token.
Seen(r) ==
    [res |-> r.res, token |-> r.t.token, token_type |-> r.t.token_type,
     token_line |-> r.t.token_line, token_column |-> r.t.token_column]

\* a caller's tokenize_next(t)
next_token ==
    /\ text # None
    /\ Len(returned) < MaxCalls
    /\ tz' = scan_next(tz).t
    /\ returned' = Append(returned, Seen(scan_next(tz)))
    /\ UNCHANGED <<text, chars>>

\* a caller's tokenize_peek(t)
peek_token ==
    /\ text # None
    /\ Len(returned) < MaxCalls
    /\ tz' = scan_peek(tz).t
    /\ UNCHANGED <<text, returned, chars>>

\* What a call of next_char or unget has returned and left behind.
CharCall(op, c, tk) == [op |-> op, c |-> c, t |-> tk]

\* a caller's next_char(t)
read_char ==
    /\ text # None
    /\ Len(chars) < MaxCharCalls
    /\ tz' = next_char(tz).t
    /\ chars' = Append(chars, CharCall("next_char", next_char(tz).c,
                                       next_char(tz).t))
    /\ UNCHANGED <<text, returned>>

\* a caller's unget(t): every call in the tokenizer follows a next_char call
push_back ==
    /\ text # None
    /\ Len(chars) < MaxCharCalls
    /\ chars # <<>>
    /\ chars[Len(chars)].op = "next_char"
    /\ tz' = unget(tz)
    /\ chars' = Append(chars, CharCall("unget", None, unget(tz)))
    /\ UNCHANGED <<text, returned>>

\* The characters the input files are written in.
LexAlphabet == {"a", " ", "\n", "=", ";", "/", "*", "'", "\""}

Texts(n) == UNION { [1..k -> LexAlphabet] : k \in 0..n }

\* Well-formed block comments: the opening line /** and a body, continuation
\* lines made of optional horizontal whitespace, a run of asterisks, one
\* space and a body, and a closing line of optional whitespace and */.
CommentBodies == {<<"a">>, <<"a", " ", "b">>}
CommentIndents == {<<>>, <<" ">>, <<"\t">>}
CommentStars == {<<"*">>, <<"*", "*">>}

ContinuationLines ==
    { i \o s \o <<" ">> \o b \o <<"\n">> :
        i \in CommentIndents, s \in CommentStars, b \in CommentBodies }

RECURSIVE Concatenation(_, _)
Concatenation(lines, i) ==
    IF i > Len(lines) THEN <<>> ELSE lines[i] \o Concatenation(lines, i + 1)

BlockComments ==
    { <<"/", "*", "*", " ">> \o b \o <<"\n">> \o Concatenation(ls, 1)
          \o i \o <<"*", "/">> :
        b \in CommentBodies,
        ls \in UNION { [1..k -> ContinuationLines] : k \in 0..MaxCommentLines },
        i \in CommentIndents }

\* Line comments: the two slashes, further slashes, spaces, a text, and the
\* end of the line or of the file, with or without a token on the next line.
CommentSlashes == {<<>>, <<"/">>, <<"/", "/">>}
CommentSpaces == {<<>>, <<" ">>, <<" ", " ">>, <<" ", " ", " ">>}
CommentLineTexts ==
    {<<>>, <<"a">>, <<"a", " ", " ", "b">>, <<"a", "/">>, <<"/", "a">>,
     <<"*", "/">>, <<"\t", "a">>, <<"a", " ">>}
CommentLineEnds == {<<>>, <<"\n">>, <<"\n", "a">>, <<"\n", "/", "/", "a">>}

LineComments ==
    { <<"/", "/">> \o sl \o sp \o b \o e :
        sl \in CommentSlashes, sp \in CommentSpaces,
        b \in CommentLineTexts, e \in CommentLineEnds }

\* String literals: an opening quote and up to MaxString - 1 characters.
MaxString == 5
StringAlphabet == {"a", "n", "\\", "\"", "\n"}

StringLiterals ==
    { <<"\"">> \o rest :
        rest \in UNION { [1..k -> StringAlphabet] : k \in 0..(MaxString - 1) } }

\* Block comments closed on a content line: the opening /*, lines of text
\* with or without a leading asterisk, and a last line of text with */
\* behind it, with or without more text after the comment.
EmbeddedFirstLines ==
    {<<>>, <<"a", "\n">>, <<" ", "a", "\n", " ", "*", " ", "b", "\n">>,
     <<"\n">>}
EmbeddedLeads == {<<>>, <<" ">>, <<" ", "*", " ">>}
EmbeddedBodies == {<<"a">>, <<"a", "b", "c">>, <<"a", " ", "b">>}
EmbeddedGaps == {<<>>, <<" ">>}
EmbeddedTails == {<<>>, <<" ", "a">>, <<"\n", "a">>}

EmbeddedComments ==
    { <<"/", "*">> \o f \o l \o b \o g \o <<"*", "/">> \o e :
        f \in EmbeddedFirstLines, l \in EmbeddedLeads, b \in EmbeddedBodies,
        g \in EmbeddedGaps, e \in EmbeddedTails }

\* The files read character by character.
CharAlphabet == {"a", "b", "\n"}
CharTexts == UNION { [1..k -> CharAlphabet] : k \in 0..MaxCharInput }

\* No tokenizer: the state the other specifications keep fixed.
LexerIdle ==
    /\ text = None
    /\ tz = None
    /\ returned = <<>>
    /\ chars = <<>>

-----------------------------------------------------------------------------
(* The parser's rules                                                      *)

vars == <<hashvars, fpvars, parservars, lexervars>>

Distinct(seq) == \A i, j \in 1..Len(seq) : i # j => seq[i] # seq[j]

\* The structs of the global list and the one being parsed.
AllStructs ==
    {lcmgen.structs[i] : i \in 1..Len(lcmgen.structs)} \cup {structure}

\* The member and constant names declared in a struct so far.
DeclaredNames(s) ==
    [i \in 1..Len(s.members) |-> s.members[i].membername]
        \o [i \in 1..Len(s.constants) |-> s.constants[i].membername]

NameSet(s) == {DeclaredNames(s)[i] : i \in 1..Len(DeclaredNames(s))}

\* This step reads the token the parser takes at the site it waits at: one
\* more token is scanned, and it is not skipped as a comment.
TokenTaken ==
    /\ status = "running"
    /\ scanned' = scanned + 1
    /\ t'.token_type \in (IF phase = "get" THEN {"OTHER", "COMMENT"}
                                            ELSE {"OTHER"})

\* C1: no two structs of the global struct list have the same (package,
\* shortname) pair, at any time.
C1_UniqueStructs ==
    Distinct([i \in 1..Len(lcmgen.structs) |->
                 <<lcmgen.structs[i].structname.package,
                   lcmgen.structs[i].structname.shortname>>])

\* C1's case: a declaration of an already listed (package, shortname) has
\* been parsed to its end and turned down, and the list holds one such struct.
C1_Witness ==
    /\ \E msg \in out : msg.text = "ERROR: Duplicate type"
    /\ Len(lcmgen.structs) >= 1

DuplicateReported(f) ==
    \E msg \in out : msg.text = "ERROR: Duplicate type" /\ msg.lcmfile = f

\* C2: once file f has declared a struct whose (package, shortname) is
\* already listed, handle_file has reported failure for f, the program stops
\* at f with a non-zero exit status, and no later file is processed.
C2_DuplicateStopsRun ==
    \A f \in 1..MaxFiles :
        DuplicateReported(f) =>
            /\ suc = "False"
            /\ fileno = f
            /\ status # "exit0"

\* C3: the member and constant names of every struct, completed or being
\* parsed, are pairwise distinct, and reading at a name position a name the
\* struct already has as a member or constant is a fatal semantic error.
C3_DuplicateNameFatal ==
    /\ [](\A s \in AllStructs : Distinct(DeclaredNames(s)))
    /\ [][(TokenTaken /\ pc \in {"member_name", "const_name"}
             /\ t'.token \in NameSet(structure))
            => (status' = "semantic_error" /\ pc' = pc)]_vars

\* C3's case: the name n has been read at a member's name position and
\* refused with a semantic error, the struct having an n already.
C3_Witness ==
    /\ status = "semantic_error"
    /\ pc = "member_name"
    /\ t.token = N_n

IsIdentifier(tok) == ~isdigit(tok) /\ is_legal_member_name(tok)

\* C4: a dimension given by a member's name names a member declared earlier
\* in the struct list than the member carrying the dimension, and reading as
\* a dimension an identifier that names no constant or member declared so far
\* is a fatal semantic error.
C4_ResolvesEarlier ==
    /\ [](\A s \in AllStructs : \A i \in 1..Len(s.members) :
            \A d \in 1..Len(s.members[i].dimensions) :
                s.members[i].dimensions[d].mode = "VAR" =>
                    \E j \in 1..(i - 1) :
                        s.members[j].membername
                            = s.members[i].dimensions[d].size)
    /\ [][(TokenTaken /\ pc = "dim_size" /\ IsIdentifier(t'.token)
             /\ t'.token \notin NameSet(structure))
            => (status' = "semantic_error" /\ pc' = pc)]_vars

\* C5: in every completed struct, each variable dimension names a member of
\* the struct that exists, has no dimensions itself, has an integer type of
\* the dimension types, and is not the member carrying the dimension.
C5_VarDimensionScalar ==
    \A n \in 1..Len(lcmgen.structs) :
        LET s == lcmgen.structs[n]
        IN  \A i \in 1..Len(s.members) :
              \A d \in 1..Len(s.members[i].dimensions) :
                s.members[i].dimensions[d].mode = "VAR" =>
                    \E j \in 1..Len(s.members) :
                        /\ j # i
                        /\ s.members[j].membername
                               = s.members[i].dimensions[d].size
                        /\ Len(s.members[j].dimensions) = 0
                        /\ s.members[j].type.lctypename
                               \in ARRAY_DIMENSION_TYPES

RECURSIVE DecimalDigits(_)
DecimalDigits(n) ==
    IF n < 10 THEN <<n>> ELSE DecimalDigits(n \div 10) \o <<n % 10>>

RECURSIVE TimesFrom(_, _, _, _)
\* factor times the decimal number ds[1..i], plus carry
TimesFrom(ds, i, carry, factor) ==
    IF i = 0 THEN (IF carry = 0 THEN <<>> ELSE DecimalDigits(carry))
    ELSE LET v == factor * ds[i] + carry
         IN  TimesFrom(ds, i - 1, v \div 10, factor) \o <<v % 10>>

Times(ds, factor) == TimesFrom(ds, Len(ds), 0, factor)

RECURSIVE Power256(_)
\* 256^k in decimal digits
Power256(k) ==
    IF k = 0 THEN <<1>>
    ELSE LET below == Power256(k - 1) IN Times(below, 256)

IntWidth == (T_int8 :> 8) @@ (T_int16 :> 16) @@ (T_int32 :> 32)
            @@ (T_int64 :> 64)

\* 2^(w-1) for a width w of whole bytes: 128 * 256^(w/8 - 1)
HalfRange(w) == Times(Power256((w \div 8) - 1), 128)

\* -2^(w-1) <= val <= 2^(w-1) - 1 for the w-bit type
InSignedRange(val, type) ==
    LET half == HalfRange(IntWidth[type])
    IN  IF val.neg THEN ~MagLess(half, val.mag) ELSE MagLess(val.mag, half)

\* C6: for a constant of type int8_t, int16_t, int32_t or int64_t, a literal
\* that reads as an integer outside the type's signed range is a fatal
\* semantic error, one inside the range is stored with its text, and so
\* every stored integer constant is within its type's signed range.
C6_ConstantInRange ==
    /\ [](\A s \in AllStructs : \A i \in 1..Len(s.constants) :
            s.constants[i].typename \in DOMAIN IntWidth =>
                /\ int_base0(s.constants[i].val_str) # ValueError
                /\ InSignedRange(int_base0(s.constants[i].val_str),
                                 s.constants[i].typename))
    /\ [][(TokenTaken /\ pc = "const_value"
             /\ locals.const_typename \in DOMAIN IntWidth
             /\ int_base0(t'.token) # ValueError)
            => IF InSignedRange(int_base0(t'.token), locals.const_typename)
               THEN /\ status' = "running"
                    /\ structure'.constants =
                         Append(structure.constants,
                                NewConstant(locals.const_typename,
                                            locals.membername,
                                            lcmgen.parse_cache.comment_doc,
                                            t'.token))
               ELSE status' = "semantic_error" /\ pc' = pc]_vars

\* C6's case: the literal 128 has been refused for a constant, which
\* happens for int8_t, whose range ends at 127.
C6_Witness ==
    /\ status = "semantic_error"
    /\ pc = "const_value"
    /\ t.token = <<"1", "2", "8">>

\* The sites at which the parser waits for the first token of a member
\* declaration: nothing of the declaration has been consumed.
MemberStartSites ==
    {"struct_body", "struct_close", "member_struct", "member_enum",
     "member_const", "member_type"}

\* C7: reading the keyword struct or enum where a member declaration starts
\* is a fatal parse error, and no completed struct holds a nested struct.
C7_NestedKeywordFatal ==
    /\ [](\A n \in 1..Len(lcmgen.structs) :
            lcmgen.structs[n].structs = <<>>)
    /\ [][(TokenTaken /\ pc \in MemberStartSites
             /\ t'.token_type = "OTHER"
             /\ t'.token \in {KW_STRUCT, KW_ENUM})
            => status' = "parse_error"]_vars

-----------------------------------------------------------------------------
(* The scalar-mixing rule written out on the 64 bits of the value, with    *)
(* wraparound: bit i of ((v << 8) XOR (v shifted right by 55)) + c, where  *)
(* the bits shifted in at the top are fill.                                *)

BitOf(v, i) == (v[(i \div 8) + 1] \div Pow2(i % 8)) % 2

NatBit(c, i) == IF i < 31 THEN (c \div Pow2(i)) % 2 ELSE 0

MixBit(v, i, fill) ==
    LET a == IF i >= 8 THEN BitOf(v, i - 8) ELSE 0
        b == IF i + 55 <= 63 THEN BitOf(v, i + 55) ELSE fill
    IN  (a + b) % 2

RECURSIVE SumBits(_, _, _, _, _)
\* bits i..63 of the sum, lowest first, given the carry into bit i
SumBits(v, c, fill, i, carry) ==
    IF i = 64 THEN <<>>
    ELSE LET s == MixBit(v, i, fill) + NatBit(c, i) + carry
         IN  <<s % 2>> \o SumBits(v, c, fill, i + 1, s \div 2)

BitsOf(v) == [i \in 1..64 |-> BitOf(v, i - 1)]

IsInt64(v) == Len(v) = 8 /\ \A k \in 1..8 : v[k] \in 0..255

\* C10 as claimed: for every signed 64-bit v and mixed-in c, hash_update(v, c)
\* is ((v << 8) XOR (v >>> 55)) + c in 64-bit wraparound arithmetic, >>> being
\* the zero-filling right shift, and the result is a signed 64-bit value.
C10_ZeroFillShift ==
    hn > 0 =>
        /\ IsInt64(hv)
        /\ BitsOf(hv) = SumBits(hprev, hc, 0, 0, 0)

\* C10 as amended: the right shift by 55 is the sign-propagating (arithmetic)
\* shift of a signed value, so for a negative v the upper bits shifted in are
\* ones; the rest of the rule, the wraparound and the result's range stand.
C10_ArithmeticShift ==
    hn > 0 =>
        /\ IsInt64(hv)
        /\ BitsOf(hv) = SumBits(hprev, hc, BitOf(hprev, 63), 0, 0)

\* C10's case: hash_update was applied to a negative running value.
C10_Witness == hn > 0 /\ IsNegative(hprev)

-----------------------------------------------------------------------------
(* Fingerprint relations                                                   *)

\* The two member lists agree in everything the claim lists: each member's
\* name, its type name when primitive, and its dimension modes and sizes.
SameShape(ma, mb) ==
    /\ Len(ma) = Len(mb)
    /\ \A i \in 1..Len(ma) :
        /\ ma[i].membername = mb[i].membername
        /\ ma[i].dimensions = mb[i].dimensions
        /\ IF ma[i].type.lctypename \in PRIMITIVE_TYPES
              \/ mb[i].type.lctypename \in PRIMITIVE_TYPES
           THEN ma[i].type.lctypename = mb[i].type.lctypename
           ELSE TRUE

\* mb is ma with the members at two positions exchanged.
Exchanged(ma, mb) ==
    /\ Len(ma) = Len(mb)
    /\ \E i, j \in 1..Len(ma) :
        /\ i < j
        /\ mb = [ma EXCEPT ![i] = ma[j], ![j] = ma[i]]

IsAscii(s) == \A i \in 1..Len(s) : Ord[s[i]] < 128

AsciiNames(ms) == \A i \in 1..Len(ms) : IsAscii(ms[i].membername)

BothHashed == hdone = {"A", "B"}

\* C8: two structs whose member lists agree in names, primitive type names
\* and dimensions have the same fingerprint, whatever their struct names,
\* packages, constants, comments and compound members' type names.
C8_ShapeOnly ==
    (BothHashed /\ SameShape(hsA.members, hsB.members))
        => hsA.hash = hsB.hash

\* C8's case: two fingerprinted structs that differ in struct name, package,
\* constants, comment and the type of a compound member, and in nothing else.
C8_Witness ==
    /\ BothHashed
    /\ SameShape(hsA.members, hsB.members)
    /\ hsA.structname.shortname # hsB.structname.shortname
    /\ hsA.structname.package # hsB.structname.package
    /\ hsA.constants # hsB.constants
    /\ hsA.comment # hsB.comment
    /\ \E i \in 1..Len(hsA.members) :
           hsA.members[i].type.lctypename # hsB.members[i].type.lctypename

-----------------------------------------------------------------------------
(* The tokenizer's rules                                                   *)

\* The tokens the tokenize_next calls made so far have delivered: the token
\* texts left by the calls before the first one that returned None.
FirstNone ==
    Lowest({ i \in 1..Len(returned) : returned[i].res.is_none })

Delivered ==
    [i \in 1..(IF FirstNone = 0 THEN Len(returned) ELSE FirstNone - 1)
        |-> returned[i].token]

IsPrefix(p, s) == Len(p) <= Len(s) /\ SubSeq(s, 1, Len(p)) = p

Terminators == {<<"(">>, <<")">>, <<";">>, <<",">>, <<":">>, <<"[">>, <<"]">>}

Flush(acc, cur) == IF cur = <<>> THEN acc ELSE Append(acc, cur)

\* The text split at whitespace, every terminator a token of its own and
\* every maximal run of operator characters a token of its own.
RECURSIVE SplitFrom(_, _, _, _)
SplitFrom(s, i, cur, acc) ==
    IF i > Len(s) THEN Flush(acc, cur)
    ELSE IF isspace(<<s[i]>>) THEN SplitFrom(s, i + 1, <<>>, Flush(acc, cur))
    ELSE IF <<s[i]>> \in Terminators
    THEN SplitFrom(s, i + 1, <<>>, Append(Flush(acc, cur), <<s[i]>>))
    ELSE IF cur # <<>>
            /\ (<<s[i]>> \in OPERATOR_CHARS) = (<<cur[1]>> \in OPERATOR_CHARS)
    THEN SplitFrom(s, i + 1, Append(cur, s[i]), acc)
    ELSE SplitFrom(s, i + 1, <<s[i]>>, Flush(acc, cur))

Split(s) == SplitFrom(s, 1, <<>>, <<>>)

\* One line, with or without its newline, holding no comment and no quote.
PlainLine(s) ==
    /\ s # None
    /\ \A i \in 1..Len(s) :
          /\ s[i] \notin {"/", "'", "\""}
          /\ s[i] = "\n" => i = Len(s)

\* C11: on a single line without comments or quote characters, the tokens
\* delivered until tokenize_next returns None are exactly the line split at
\* whitespace, with each terminator and each maximal run of operator
\* characters a token of its own: at every moment the tokens delivered are a
\* prefix of that split, and they are all of it once None was returned.
C11_SplitsAtWhitespace ==
    PlainLine(text) =>
        /\ IsPrefix(Delivered, Split(text))
        /\ FirstNone # 0 => Delivered = Split(text)

MaxPeeks == 2

\* The tokenizer after k consecutive tokenize_peek calls.
RECURSIVE Peeks(_, _)
Peeks(tk, k) == IF k = 0 THEN tk ELSE Peeks(scan_peek(tk).t, k - 1)

\* The token a call has left, where it starts, and the input not yet read.
TokenAndRest(tk) ==
    [token |-> tk.token, token_type |-> tk.token_type,
     token_line |-> tk.token_line, token_column |-> tk.token_column,
     f |-> tk.f, buffer |-> tk.buffer, buffer_line |-> tk.buffer_line,
     buffer_column |-> tk.buffer_column, buffer_len |-> tk.buffer_len,
     unget_char |-> tk.unget_char]

\* C12: tokenize_peek does not consume input: in every state of the
\* tokenizer, any number of consecutive tokenize_peek calls followed by one
\* tokenize_next leave the same token text, token type, token position and
\* unread input as a single tokenize_next made in that state.
C12_PeekDoesNotConsume ==
    text # None =>
        \A k \in 1..MaxPeeks :
            TokenAndRest(scan_next(Peeks(tz, k)).t)
                = TokenAndRest(scan_next(tz).t)

Occurrences(x, s) == Cardinality({ i \in 1..Len(s) : s[i] = x })

\* How often the character x stands in the tokens the first n tokenize_next
\* calls have left.
RECURSIVE OccurrencesReturned(_, _)
OccurrencesReturned(x, n) ==
    IF n = 0 THEN 0
    ELSE OccurrencesReturned(x, n - 1) + Occurrences(x, returned[n].token)

\* C13: every input character is consumed at most once, so that no
\* character is delivered again after the end of the stream was hit and the
\* calls come to return None: for a file without escapes, no character
\* stands in the tokens left by the tokenize_next calls more often than it
\* stands in the file.
C13_EachCharacterOnce ==
    (text # None /\ Occurrences("\\", text) = 0) =>
        \A x \in LexAlphabet :
            OccurrencesReturned(x, Len(returned)) <= Occurrences(x, text)

\* The first position from i on at which s holds no character of the set.
RECURSIVE SkipChars(_, _, _)
SkipChars(s, i, set) ==
    IF i <= Len(s) /\ s[i] \in set THEN SkipChars(s, i + 1, set) ELSE i

SkipOne(s, i, x) == IF i <= Len(s) /\ s[i] = x THEN i + 1 ELSE i

\* Where the body of the line starting at i starts: behind the horizontal
\* whitespace, the run of asterisks and one space.
BodyStart(s, i) ==
    SkipOne(s, SkipChars(s, SkipChars(s, i, {" ", "\t"}), {"*"}), " ")

\* The bodies of the lines of the block comment s from position i on, joined
\* by single newlines; the line that closes the comment has no body.
RECURSIVE JoinedBodies(_, _, _)
JoinedBodies(s, i, acc) ==
    IF line_end(s, BodyStart(s, i)) = Len(s) THEN acc
    ELSE JoinedBodies(s, line_end(s, BodyStart(s, i)) + 1,
             (IF acc = <<>> THEN <<>> ELSE acc \o <<"\n">>)
                 \o SubSeq(s, BodyStart(s, i),
                           line_end(s, BodyStart(s, i)) - 1))

\* C14: the token text of a well-formed block comment is exactly its line
\* bodies joined by single newlines, with no newline before or after them
\* and none of the decoration: the first tokenize_next on the comment leaves
\* a COMMENT token holding that text.
C14_BlockCommentBodies ==
    (text # None /\ Len(returned) >= 1) =>
        /\ returned[1].token_type = "COMMENT"
        /\ returned[1].token = JoinedBodies(text, 3, <<>>)

-----------------------------------------------------------------------------
(* Package, comments and the struct list                                   *)

\* The package changes only in the step that reads the name of a package
\* directive, and it becomes that name.
PackageSetByDirective ==
    lcmgen'.parse_cache.package # lcmgen.parse_cache.package
        => (/\ pc = "package_name"
            /\ TokenTaken
            /\ lcmgen'.parse_cache.package = t'.token)

\* The struct made from the name read at a struct name position carries the
\* package current at that moment.
StructTakesPackage ==
    /\ status' = "running"
    /\ structure'.structname.package = lcmgen.parse_cache.package
    /\ structure'.structname.shortname = t'.token
    /\ lcmgen'.parse_cache.package = lcmgen.parse_cache.package

\* C15 as stated: the current package persists across entities and input
\* files: it changes only when a package directive is parsed, and every
\* struct with an unqualified name is resolved with the package current when
\* its name is read, which is the one of the most recent package directive
\* of the run.
C15_PackagePersists ==
    /\ [][PackageSetByDirective]_vars
    /\ [][(TokenTaken /\ pc = "struct_name" /\ rfind_dot(t'.token) = 0)
            => StructTakesPackage]_vars

\* C15, amended: the same for every struct whose unqualified name is not the
\* name of a primitive type; a struct named like a primitive type keeps an
\* empty package.
C15_PackagePersistsNonPrimitive ==
    /\ [][PackageSetByDirective]_vars
    /\ [][(TokenTaken /\ pc = "struct_name" /\ rfind_dot(t'.token) = 0)
            => IF t'.token \in PRIMITIVE_TYPES
               THEN /\ status' = "running"
                    /\ structure'.structname.package = <<>>
               ELSE StructTakesPackage]_vars

\* C15's case: a struct name has been read in the second file while the
\* package is the one a directive of the first file declared.
C15_Witness ==
    /\ status = "running"
    /\ fileno = 2
    /\ pc = "struct_open"
    /\ lcmgen.parse_cache.package = N_n
    /\ structure.structname.package = N_n
    /\ structure.structname.shortname = N_a

CommentDoc == lcmgen.parse_cache.comment_doc

\* The comment text doc ends with the comment tok as its last line.
EndsWithComment(doc, tok) ==
    /\ doc # None
    /\ Len(doc) >= Len(tok)
    /\ SubSeq(doc, Len(doc) - Len(tok) + 1, Len(doc)) = tok
    /\ Len(doc) > Len(tok) => doc[Len(doc) - Len(tok)] = "\n"

\* The sites at which the next token is the first one of an entity, of a
\* member or constant declaration, or the closing brace.
DeclarationStarts == {"parse_entity", "struct_body", "struct_close"}

\* A comment read last where a declaration may start is pending.
PendingHoldsLastComment ==
    (/\ status = "running"
     /\ pc \in DeclarationStarts
     /\ t.token_type = "COMMENT"
     /\ t.hasnext = 0)
        => EndsWithComment(CommentDoc, t.token)

\* A comment read where a declaration may start is joined to the pending
\* ones by a newline.
CommentJoined ==
    (/\ status = "running"
     /\ pc \in DeclarationStarts
     /\ scanned' = scanned + 1
     /\ t'.token_type = "COMMENT"
     /\ status' = "running")
        => lcmgen'.parse_cache.comment_doc
               = IF CommentDoc = None \/ phase # "cc" \/ pc \notin StoreSites
                 THEN t'.token
                 ELSE CommentDoc \o <<"\n">> \o t'.token

\* The struct, member or constant whose name or value is read takes the
\* pending comment, and nothing is pending afterwards.
AttachedOnce ==
    (TokenTaken /\ status' = "running") =>
        /\ pc = "struct_name" =>
              /\ structure'.comment = CommentDoc
              /\ lcmgen'.parse_cache.comment_doc = None
        /\ pc = "member_name" =>
              /\ structure'.members[Len(structure'.members)].comment
                     = CommentDoc
              /\ lcmgen'.parse_cache.comment_doc = None
        /\ pc = "const_value" =>
              /\ structure'.constants[Len(structure'.constants)].comment
                     = CommentDoc
              /\ lcmgen'.parse_cache.comment_doc = None

\* Nothing is pending after a closing brace or the keyword of a package
\* directive, nor when a file is entered.
DroppedAtBraceAndPackage ==
    /\ (/\ status = "running"
        /\ scanned' = scanned + 1
        /\ t'.token_type = "OTHER"
        /\ \/ pc = "parse_entity" /\ t'.token = KW_PACKAGE
           \/ pc \in {"struct_body", "struct_close"} /\ t'.token = TOK_CLOSE
        /\ status' = "running")
           => (pc' = "main" \/ lcmgen'.parse_cache.comment_doc = None)
    /\ (pc = "main" /\ pc' = "parse_entity")
           => lcmgen'.parse_cache.comment_doc = None

\* C16: the contiguous comment tokens immediately preceding a struct, member
\* or constant declaration are joined by newlines and attached to it, once:
\* the comments read last before a declaration are the pending comment, the
\* declaration takes the pending comment and leaves none for the next name
\* of the same declaration, and a comment before a closing brace or a
\* package directive is not pending for anything declared later.
C16_CommentsAttached ==
    /\ []PendingHoldsLastComment
    /\ [][CommentJoined]_vars
    /\ [][AttachedOnce]_vars
    /\ [][DroppedAtBraceAndPackage]_vars

FileComment == lcmgen.parse_cache.file_comment

\* C17: the comments before a package directive become the file-header
\* comment, and the file-header comment goes to the next struct parsed,
\* whatever entities come in between, and to that struct only: the keyword
\* of a package directive makes the pending comment the file-header comment
\* when there is none yet, and a file-header comment stays as it is until
\* the step that reads the name of the next struct, which hands it to that
\* struct and leaves none.
C17_FileCommentToNextStruct ==
    /\ [][(/\ status = "running"
           /\ pc = "parse_entity"
           /\ scanned' = scanned + 1
           /\ t'.token_type = "OTHER"
           /\ t'.token = KW_PACKAGE
           /\ FileComment = None
           /\ status' = "running")
             => lcmgen'.parse_cache.file_comment = CommentDoc]_vars
    /\ [][(FileComment # None
             /\ lcmgen'.parse_cache.file_comment # FileComment)
             => (/\ pc = "struct_name"
                 /\ TokenTaken
                 /\ structure'.file_comment = FileComment
                 /\ lcmgen'.parse_cache.file_comment = None)]_vars

\* This step scans a token the tokenizer gives up on: it returns None with
\* input left.
MalformedScanned ==
    /\ status = "running"
    /\ pc # "tokenize"
    /\ scanned' = scanned + 1
    /\ t'.token_type = "INVALID"

\* C18: a token the tokenizer gives up on (an unterminated string, a
\* malformed character literal, an unterminated block comment) ends the run
\* with a parse error wherever it stands, the place of a top-level entity
\* included: it is never taken for the end of the file, with handle_file
\* returning to main.
C18_MalformedIsParseError ==
    [][MalformedScanned => (status' = "parse_error" /\ pc' # "main")]_vars

Listed == lcmgen.structs

\* The structs of the list carry the fingerprint of their member list.
HashIsFingerprint(structs, from) ==
    \A i \in from..Len(structs) : structs[i].hash = hash_structure(structs[i])

\* C19: every struct of the global list carries, at every moment, the
\* fingerprint of its member list as its hash: this holds of the list the
\* run starts with, every struct a step adds to the list carries it, and
\* the members and the hash of a listed struct never change; the hash is
\* computed once, when the closing brace has been read, so that a struct
\* being parsed still has the hash it was created with.
C19_StoredHashIsFingerprint ==
    /\ HashIsFingerprint(Listed, 1)
    /\ [][HashIsFingerprint(lcmgen'.structs, Len(Listed) + 1)]_vars
    /\ [][\A i \in 1..Len(Listed) :
             /\ i <= Len(lcmgen'.structs)
             /\ lcmgen'.structs[i].members = Listed[i].members
             /\ lcmgen'.structs[i].hash = Listed[i].hash]_vars
    /\ [](structure.hash = Int64OfNat(0))

\* C19's case: a struct with a member is listed with its fingerprint, and
\* the next struct is being parsed.
C19_Witness ==
    /\ status = "running"
    /\ pc = "struct_body"
    /\ Len(Listed) = 1
    /\ Len(Listed[1].members) = 1
    /\ Listed[1].hash = hash_structure(Listed[1])
    /\ Listed[1].hash # Int64OfNat(HASH_SEED)

\* C20: the struct list is append-only: a step leaves it as it is or adds
\* one struct at its end, the one whose closing brace the step has read; a
\* package directive and a refused duplicate leave it as it is.
C20_StructListAppendOnly ==
    /\ [][\/ lcmgen'.structs = Listed
          \/ /\ Len(lcmgen'.structs) = Len(Listed) + 1
             /\ SubSeq(lcmgen'.structs, 1, Len(Listed)) = Listed
             /\ t'.token = TOK_CLOSE
             /\ lcmgen'.structs[Len(Listed) + 1].structname
                    = structure.structname
             /\ lcmgen'.structs[Len(Listed) + 1].members
                    = structure.members]_vars
    /\ [][(\/ pc \in {"package_name", "package_semi"}
           \/ t'.token = KW_PACKAGE /\ pc = "parse_entity"
           \/ \E msg \in out' \ out : msg.text = "ERROR: Duplicate type")
             => lcmgen'.structs = Listed]_vars

\* C20's case: a second struct has been added behind the first.
C20_Witness ==
    /\ Len(Listed) = 2
    /\ Listed[1].structname.shortname = N_a
    /\ Listed[2].structname.shortname = N_n

-----------------------------------------------------------------------------
(* Token classes, line comments, string literals and pushback              *)

\* C21: every token that tokenize_next returns successfully is classified:
\* a call that does not return None leaves the token type COMMENT or OTHER,
\* never INVALID, whatever kind of token it scanned.
C21_ReturnedTokensClassified ==
    text # None =>
        \A i \in 1..Len(returned) :
            ~returned[i].res.is_none
                => returned[i].token_type \in {"COMMENT", "OTHER"}

\* The position of the first newline of s, or one past its end.
LineStop(s) ==
    IF Lowest({ i \in 1..Len(s) : s[i] = "\n" }) = 0 THEN Len(s) + 1
    ELSE Lowest({ i \in 1..Len(s) : s[i] = "\n" })

\* The comment text of the line comment s when, behind its two slashes, every
\* further slash is dropped and then one space at most.
TextBehindOneSpace(s) ==
    SubSeq(s, SkipOne(s, SkipChars(s, 3, {"/"}), " "), LineStop(s) - 1)

\* The same when all the spaces that follow the slashes are dropped.
TextBehindSpaces(s) ==
    SubSeq(s, SkipChars(s, SkipChars(s, 3, {"/"}), {" "}), LineStop(s) - 1)

\* The first tokenize_next on a line comment has been made.
LineCommentScanned == text # None /\ Len(returned) >= 1

\* The step that scans the comment, made by tokenize_next or tokenize_peek
\* on the tokenizer that has read nothing yet, pushes the newline that ended
\* the line back: it is the character read next, at its own position.
NewlinePushedBack ==
    (tz.buffer_line = 0 /\ LineStop(text) <= Len(text)) =>
        /\ tz'.unget_char = <<"\n">>
        /\ tz'.unget_line = 1
        /\ tz'.unget_column = LineStop(text) - 1
        /\ next_char(tz').c = <<"\n">>
        /\ next_char(tz').t.f = tz'.f

\* C22: for a line comment the tokenizer drops the slashes that follow the
\* initial // and then a single space only; the COMMENT token is the whole
\* rest of the line without its newline, a second space included, and the
\* newline that ended the line is pushed back.
C22_LineCommentOneSpace ==
    /\ [](LineCommentScanned =>
            /\ ~returned[1].res.is_none
            /\ returned[1].token_type = "COMMENT"
            /\ returned[1].token = TextBehindOneSpace(text))
    /\ [][NewlinePushedBack]_vars

\* C22 as the code has it: all the spaces that follow the slashes are
\* dropped, so the comment text starts at the first character that is not a
\* space; the rest is as stated.
C22_LineCommentAllSpaces ==
    /\ [](LineCommentScanned =>
            /\ ~returned[1].res.is_none
            /\ returned[1].token_type = "COMMENT"
            /\ returned[1].token = TextBehindSpaces(text))
    /\ [][NewlinePushedBack]_vars

\* The comment `//  a  b` followed by a newline and more text was scanned.
C22_Witness ==
    /\ LineCommentScanned
    /\ Len(returned) = 1
    /\ Len(text) >= 9
    /\ SubSeq(text, 1, 9) = <<"/", "/", " ", " ", "a", " ", " ", "b", "\n">>
    /\ returned[1].token = <<"a", " ", " ", "b">>
    /\ tz.unget_char = <<"\n">>

\* The position of the first quote of s from i on that no backslash escapes,
\* a backslash escaping the character behind it; 0 when there is none.
RECURSIVE ClosingQuote(_, _)
ClosingQuote(s, i) ==
    IF i > Len(s) THEN 0
    ELSE IF s[i] = "\\" THEN ClosingQuote(s, i + 2)
    ELSE IF s[i] = "\"" THEN i
    ELSE ClosingQuote(s, i + 1)

\* The characters of s from i to j without the backslashes and the
\* characters they escape.
RECURSIVE Unescaped(_, _, _)
Unescaped(s, i, j) ==
    IF i > j THEN <<>>
    ELSE IF s[i] = "\\" THEN Unescaped(s, i + 2, j)
    ELSE <<s[i]>> \o Unescaped(s, i + 1, j)

\* The input a tokenizer has not read yet.
Unread(tk) ==
    SubSeq(tk.buffer, tk.buffer_column + 1, Len(tk.buffer)) \o tk.f

\* The step that scans the literal, made on the tokenizer that has read
\* nothing yet, stops reading right behind the closing quote.
StopsBehindClosingQuote ==
    (tz.buffer_line = 0 /\ ClosingQuote(text, 2) # 0) =>
        /\ Unread(tz') = SubSeq(text, ClosingQuote(text, 2) + 1, Len(text))
        /\ ~Truthy(tz'.unget_char)

\* C23: the token of a string literal is its opening quote, the characters
\* up to the first closing quote that is not escaped, without any backslash
\* and without the character behind each backslash, and that closing quote;
\* an escaped quote does not end the literal, and tokenize_next returns None
\* when the file ends before an unescaped closing quote.
C23_StringLiteralText ==
    /\ []((text # None /\ Len(returned) >= 1) =>
            IF ClosingQuote(text, 2) = 0
            THEN returned[1].res.is_none
            ELSE /\ ~returned[1].res.is_none
                 /\ returned[1].token
                      = <<"\"">> \o Unescaped(text, 2, ClosingQuote(text, 2)))
    /\ [][StopsBehindClosingQuote]_vars

\* The literal "\"a" was scanned: its escaped quote did not end it and is not
\* in the token.
C23_Witness ==
    /\ text = <<"\"", "\\", "\"", "a", "\"">>
    /\ Len(returned) = 1
    /\ returned[1].token = <<"\"", "a", "\"">>
    /\ Unread(tz) = <<>>

\* What next_char leaves of the line buffer and of the stream.
BufferAndStream(tk) ==
    [buffer |-> tk.buffer, buffer_line |-> tk.buffer_line,
     buffer_column |-> tk.buffer_column, buffer_len |-> tk.buffer_len,
     f |-> tk.f]

\* The calls i, i + 1 and i + 2 are a next_char that returned a character,
\* an unget, and a next_char.
RoundTripAt(i) ==
    /\ chars[i].op = "next_char"
    /\ chars[i].c # None
    /\ chars[i + 1].op = "unget"
    /\ chars[i + 2].op = "next_char"

\* The character, line and column are delivered again, nothing is taken
\* from the line buffer, and no pushback is left.
RoundTrip ==
    \A i \in 1..(Len(chars) - 2) :
        RoundTripAt(i) =>
            /\ chars[i + 2].c = chars[i].c
            /\ chars[i + 2].t.current_char = chars[i].c
            /\ chars[i + 2].t.current_line = chars[i].t.current_line
            /\ chars[i + 2].t.current_column = chars[i].t.current_column
            /\ BufferAndStream(chars[i + 2].t) = BufferAndStream(chars[i].t)
            /\ chars[i + 2].t.unget_char = None

\* The character returned last by the calls made so far; None if none was.
LastCharacter ==
    IF Lowest({ k \in 1..Len(chars) : chars[Len(chars) + 1 - k].c # None }) = 0
    THEN None
    ELSE chars[Len(chars) + 1
               - Lowest({ k \in 1..Len(chars) :
                            chars[Len(chars) + 1 - k].c # None })].c

\* A character was pushed back and not read again.
PushbackPending ==
    /\ chars # <<>>
    /\ chars[Len(chars)].op = "unget"
    /\ LastCharacter # None

\* A next_char call made while a pushback is pending delivers it and reads
\* neither the line buffer nor the stream.
PushbackFirst ==
    (PushbackPending /\ Len(chars') = Len(chars) + 1) =>
        /\ chars'[Len(chars')].c = LastCharacter
        /\ BufferAndStream(tz') = BufferAndStream(tz)
        /\ tz'.unget_char = None

\* C24: pushback round trip. When next_char has returned a character c at a
\* line and column, unget followed by next_char returns c again with the
\* same line and column, takes nothing from the line buffer and leaves no
\* pushback; and next_char always delivers a pending pushback before it
\* reads the buffer or the stream.
C24_PushbackRoundTrip ==
    /\ []RoundTrip
    /\ [][PushbackFirst]_vars

\* The second line's first character was read, pushed back and read again.
C24_Witness ==
    /\ Len(chars) >= 3
    /\ RoundTripAt(Len(chars) - 2)
    /\ chars[Len(chars)].c = <<"b">>
    /\ chars[Len(chars)].t.current_line = 2
    /\ chars[Len(chars)].t.current_column = 0

-----------------------------------------------------------------------------
(* Type names and array sizes                                              *)

Dotted(pkg, name) == pkg \o <<".">> \o name

HasDot(s) == \E i \in 1..Len(s) : s[i] = "."

\* The name read for the struct, and the package and the prefix it was
\* resolved under.
StructNamed == status = "running" /\ pc = "struct_open"
RawName == t.token
PackageNow == lcmgen.parse_cache.package
PackagePrefix == lcmgen.gopt.package_prefix

\* The parts of a qualified name: what stands before its last dot, and what
\* stands behind it.
LastDot(s) == CHOOSE i \in 1..Len(s) :
                 s[i] = "." /\ \A j \in (i + 1)..Len(s) : s[j] # "."
OwnPackage(s) == IF HasDot(s) THEN SubSeq(s, 1, LastDot(s) - 1) ELSE PackageNow
ShortName(s) == IF HasDot(s) THEN SubSeq(s, LastDot(s) + 1, Len(s)) ELSE s

\* Without a prefix, an unqualified name that is not a primitive takes the
\* current package.
TakesCurrentPackage ==
    (PackagePrefix = <<>> /\ ~HasDot(RawName)
        /\ RawName \notin PRIMITIVE_TYPES) =>
        /\ structure.structname.package = PackageNow
        /\ structure.structname.shortname = RawName
        /\ structure.structname.lctypename
             = IF PackageNow = <<>> THEN RawName
               ELSE Dotted(PackageNow, RawName)

\* A primitive name keeps an empty package and is never prefixed.
PrimitiveKeepsEmptyPackage ==
    RawName \in PRIMITIVE_TYPES =>
        /\ structure.structname.package = <<>>
        /\ structure.structname.shortname = RawName
        /\ structure.structname.lctypename = RawName

\* With a prefix X, a name that is not a primitive gets the package X.P, or
\* X where its package P is empty, and the qualified name package.shortname.
PrefixedPackage ==
    (PackagePrefix # <<>> /\ ShortName(RawName) \notin PRIMITIVE_TYPES) =>
        /\ structure.structname.package
             = IF OwnPackage(RawName) = <<>> THEN PackagePrefix
               ELSE Dotted(PackagePrefix, OwnPackage(RawName))
        /\ structure.structname.shortname = ShortName(RawName)
        /\ structure.structname.lctypename
             = Dotted(structure.structname.package,
                      structure.structname.shortname)

\* The qualified name is package.shortname, or the shortname alone where the
\* package is empty.
QualifiedFromParts ==
    structure.structname.lctypename
        = IF structure.structname.package # <<>>
          THEN Dotted(structure.structname.package,
                      structure.structname.shortname)
          ELSE structure.structname.shortname

\* C25: type-name resolution. An unqualified name that is not a primitive
\* takes the current package; a primitive name keeps an empty package and is
\* never prefixed; with a package prefix every other name gets the prefixed
\* package and the qualified name package.shortname; and the TypeName of
\* every struct has the qualified name package.shortname, or the shortname
\* alone where its package is empty.
C25_TypenameResolution ==
    StructNamed =>
        /\ TakesCurrentPackage
        /\ PrimitiveKeepsEmptyPackage
        /\ PrefixedPackage
        /\ QualifiedFromParts

\* The text of a positive integer: decimal digits, not all of them zero.
PositiveDecimal(s) ==
    /\ s # <<>>
    /\ \A i \in 1..Len(s) : s[i] \in Digits
    /\ \E i \in 1..Len(s) : s[i] # "0"

\* Every Const-mode dimension of the struct s has a positive integer as size.
ConstSizesPositive(s) ==
    \A i \in 1..Len(s.members) :
        \A d \in 1..Len(s.members[i].dimensions) :
            s.members[i].dimensions[d].mode = "CONST" =>
                PositiveDecimal(s.members[i].dimensions[d].size)

\* An array size that names a constant is accepted, by the step that reads
\* it, only if the constant has an integer type and a positive literal.
ConstantSizeAccepted ==
    (TokenTaken /\ pc = "dim_size" /\ find_const(structure, t'.token) # 0
        /\ status' = "running") =>
        /\ structure.constants[find_const(structure, t'.token)].typename
             \in DOMAIN INT_TYPES
        /\ PositiveDecimal(
             structure.constants[find_const(structure, t'.token)].val_str)

\* C26: in every completed struct the size of every Const-mode dimension is
\* the text of a positive integer: a decimal literal given as size is
\* greater than 0, and a size that names a constant is accepted only for an
\* integer-typed constant whose literal is a positive integer.
C26_ConstSizePositive ==
    /\ [](\A n \in 1..Len(Listed) : ConstSizesPositive(Listed[n]))
    /\ [][ConstantSizeAccepted]_vars

\* C27: the end of the stream is absorbing. Once a tokenize_next call has
\* returned None, every later tokenize_next and tokenize_peek call on the
\* tokenizer returns None as well: no None result precedes a further token.
C27_EndOfStreamAbsorbing ==
    text # None =>
        /\ \A i, j \in 1..Len(returned) :
              (i < j /\ returned[i].res.is_none) => returned[j].res.is_none
        /\ FirstNone # 0 =>
              /\ scan_next(tz).res.is_none
              /\ scan_peek(tz).res.is_none

\* The result of the tokenize_next call made in this step, when it scanned a
\* token afresh (none was pending from a tokenize_peek).
FreshlyScanned ==
    /\ text # None
    /\ tz.hasnext = 0
    /\ Len(returned') = Len(returned) + 1
    /\ ~returned'[Len(returned')].res.is_none

\* C28: for a block comment ended by */ on a content line the comment token
\* holds neither character of the terminating */, and the length returned
\* for a freshly scanned token is the length of the token text left in the
\* tokenizer.
C28_EmbeddedTerminatorLeftOut ==
    /\ []((text # None /\ Len(returned) >= 1) =>
            /\ returned[1].token_type = "COMMENT"
            /\ Occurrences("*", returned[1].token) = 0
            /\ Occurrences("/", returned[1].token) = 0)
    /\ [][FreshlyScanned =>
            /\ returned'[Len(returned')].res.pos
                 = Len(returned'[Len(returned')].token)
            /\ Len(tz'.token) = returned'[Len(returned')].res.pos]_vars

-----------------------------------------------------------------------------
NextHashUpdate ==
    hash_update_step /\ UNCHANGED <<fpvars, parservars, lexervars>>
InitHashUpdateOnly ==
    /\ LexerIdle
    /\ InitHashUpdate
    /\ hsA = None
    /\ hsB = None
    /\ hdone = {}
    /\ ParserIdle
SpecHashUpdate == InitHashUpdateOnly /\ [][NextHashUpdate]_vars

NextFingerprint ==
    store_hash /\ UNCHANGED <<hashvars, parservars, lexervars>>
InitFingerprintOnly ==
    /\ LexerIdle
    /\ InitFingerprint
    /\ InitHashUpdate
    /\ ParserIdle
SpecFingerprint == InitFingerprintOnly /\ [][NextFingerprint]_vars

Init ==
    /\ LexerIdle
    /\ InitParser
    /\ InitHashUpdate
    /\ hsA = None
    /\ hsB = None
    /\ hdone = {}

Next ==
    \/ handle_file /\ UNCHANGED <<hashvars, fpvars, lexervars>>
    \/ handle_file_tokenize /\ UNCHANGED <<hashvars, fpvars, lexervars>>
    \/ main_exit /\ UNCHANGED <<hashvars, fpvars, lexervars>>
    \/ parse_try_consume_comment /\ UNCHANGED <<hashvars, fpvars, lexervars>>
    \/ parse_entity /\ UNCHANGED <<hashvars, fpvars, lexervars>>
    \/ tokenize_next_or_fail /\ UNCHANGED <<hashvars, fpvars, lexervars>>
    \/ parse_require /\ UNCHANGED <<hashvars, fpvars, lexervars>>
    \/ parse_try_consume /\ UNCHANGED <<hashvars, fpvars, lexervars>>

Spec == Init /\ [][Next]_vars

InitBody ==
    /\ LexerIdle
    /\ InitStructBody
    /\ InitHashUpdate
    /\ hsA = None
    /\ hsB = None
    /\ hdone = {}

NextStructBody ==
    \/ handle_file /\ UNCHANGED <<hashvars, fpvars, lexervars>>
    \/ main_exit /\ UNCHANGED <<hashvars, fpvars, lexervars>>
    \/ parse_try_consume_comment /\ UNCHANGED <<hashvars, fpvars, lexervars>>
    \/ parse_entity /\ UNCHANGED <<hashvars, fpvars, lexervars>>
    \/ tokenize_next_or_fail /\ UNCHANGED <<hashvars, fpvars, lexervars>>
    \/ parse_require /\ UNCHANGED <<hashvars, fpvars, lexervars>>
    \/ parse_try_consume /\ UNCHANGED <<hashvars, fpvars, lexervars>>

SpecStructBody == InitBody /\ [][NextStructBody]_vars

InitConst ==
    /\ LexerIdle
    /\ InitConstValue
    /\ InitHashUpdate
    /\ hsA = None
    /\ hsB = None
    /\ hdone = {}

NextConst == const_value_token /\ UNCHANGED <<hashvars, fpvars, lexervars>>

SpecConst == InitConst /\ [][NextConst]_vars

InitTypename ==
    /\ LexerIdle
    /\ InitStructName
    /\ InitHashUpdate
    /\ hsA = None
    /\ hsB = None
    /\ hdone = {}

NextTypename == struct_name_token /\ UNCHANGED <<hashvars, fpvars, lexervars>>

SpecTypename == InitTypename /\ [][NextTypename]_vars

InitArraySizeOnly ==
    /\ LexerIdle
    /\ InitArraySize
    /\ InitHashUpdate
    /\ hsA = None
    /\ hsB = None
    /\ hdone = {}

SpecArraySize == InitArraySizeOnly /\ [][NextStructBody]_vars

\* create on a file of up to MaxInput characters
InitLexerOnly ==
    /\ text \in Texts(MaxInput)
    /\ tz = create_tokenize(0, text)
    /\ returned = <<>>
    /\ chars = <<>>
    /\ InitHashUpdate
    /\ hsA = None
    /\ hsB = None
    /\ hdone = {}
    /\ ParserIdle

NextLexer ==
    \/ next_token /\ UNCHANGED <<hashvars, fpvars, parservars>>
    \/ peek_token /\ UNCHANGED <<hashvars, fpvars, parservars>>

SpecLexer == InitLexerOnly /\ [][NextLexer]_vars


\* create on a file whose characters the caller reads one by one
InitCharsOnly ==
    /\ text \in CharTexts
    /\ tz = create_tokenize(0, text)
    /\ returned = <<>>
    /\ chars = <<>>
    /\ InitHashUpdate
    /\ hsA = None
    /\ hsB = None
    /\ hdone = {}
    /\ ParserIdle

NextChars ==
    \/ read_char /\ UNCHANGED <<hashvars, fpvars, parservars>>
    \/ push_back /\ UNCHANGED <<hashvars, fpvars, parservars>>

SpecChars == InitCharsOnly /\ [][NextChars]_vars

\* create on a file that starts with a line comment
InitLineCommentOnly ==
    /\ text \in LineComments
    /\ tz = create_tokenize(0, text)
    /\ returned = <<>>
    /\ chars = <<>>
    /\ InitHashUpdate
    /\ hsA = None
    /\ hsB = None
    /\ hdone = {}
    /\ ParserIdle

SpecLineComment == InitLineCommentOnly /\ [][NextLexer]_vars

\* create on a file that starts with a block comment closed on a content line
InitEmbeddedCommentOnly ==
    /\ text \in EmbeddedComments
    /\ tz = create_tokenize(0, text)
    /\ returned = <<>>
    /\ chars = <<>>
    /\ InitHashUpdate
    /\ hsA = None
    /\ hsB = None
    /\ hdone = {}
    /\ ParserIdle

SpecEmbeddedComment == InitEmbeddedCommentOnly /\ [][NextLexer]_vars

\* create on a file that starts with a string literal
InitStringLiteralOnly ==
    /\ text \in StringLiterals
    /\ tz = create_tokenize(0, text)
    /\ returned = <<>>
    /\ chars = <<>>
    /\ InitHashUpdate
    /\ hsA = None
    /\ hsB = None
    /\ hdone = {}
    /\ ParserIdle

SpecStringLiteral == InitStringLiteralOnly /\ [][NextLexer]_vars

\* create on a file holding one block comment
InitBlockCommentOnly ==
    /\ text \in BlockComments
    /\ tz = create_tokenize(0, text)
    /\ returned = <<>>
    /\ chars = <<>>
    /\ InitHashUpdate
    /\ hsA = None
    /\ hsB = None
    /\ hdone = {}
    /\ ParserIdle

SpecBlockComment == InitBlockCommentOnly /\ [][NextLexer]_vars

====
